---- MODULE Spec2Model ----
(***************************************************************************)
(* vsg::Allocator (src/unnamed/part_002, lines 269-748): the process-wide  *)
(* allocator, its Memory Block Groups (Allocator::MemoryBlocks), its       *)
(* Memory Blocks (Allocator::MemoryBlock) and the Slot Tracker             *)
(* (vsg::MemorySlots) each block owns.                                     *)
(*                                                                         *)
(* Sizes, alignments and addresses are bytes, as in the source.  A null    *)
(* pointer is 0.  An absent unique_ptr (a null group, a null nested        *)
(* allocator) is the record [null |-> TRUE].                               *)
(***************************************************************************)
EXTENDS Integers, Sequences, FiniteSets, Bags, TLC

\* ------------------------------------------------------------------ bounds
\* Number of address slots the system allocator can hand blocks out of.
NumSlots == 2
\* Largest number of allocations the clients hold at once.
MaxLive == 2
\* Number of client threads of the threaded specification.
NumThreads == 2

\* ------------------------------------------------------- program constants
Megabyte == 1024 * 1024
ALLOCATOR_AFFINITY_OBJECTS == 0
ALLOCATOR_AFFINITY_DATA == 1
ALLOCATOR_AFFINITY_NODES == 2
ALLOCATOR_AFFINITY_PHYSICS == 3
ALLOCATOR_AFFINITY_LAST == 4
\* Allocator's constructor argument in_default_alignment.
in_default_alignment == 4
PhysicsAlignment == 16
\* alignof(std::max_align_t) and the 16-byte floor of MemoryBlock's constructor.
AlignofMaxAlignT == 16
BlockAlignmentFloor == 16
\* Allocator::allocate's block size for a group it creates.
AllocateBlockSize == 1024 * 1024

ALLOCATOR_TYPE_NO_FALLBACK == "ALLOCATOR_TYPE_VSG_ALLOCATOR"
ALLOCATOR_TYPE_NEW_DELETE == "ALLOCATOR_TYPE_NEW_DELETE"
ALLOCATOR_TYPE_MALLOC_FREE == "ALLOCATOR_TYPE_MALLOC_FREE"
AllocatorTypes == {ALLOCATOR_TYPE_NO_FALLBACK, ALLOCATOR_TYPE_NEW_DELETE, ALLOCATOR_TYPE_MALLOC_FREE}

\* memoryTracking is a set of flags; MEMORY_TRACKING_REPORT_ACTIONS is one of them.
MEMORY_TRACKING_REPORT_ACTIONS == "REPORT_ACTIONS"
MEMORY_TRACKING_DEFAULT == {}

Null == [null |-> TRUE]
nullptr == 0

Max(a, b) == IF a >= b THEN a ELSE b
SetMax(S) == CHOOSE x \in S : \A y \in S : y <= x
SetMin(S) == CHOOSE x \in S : \A y \in S : x <= y

RECURSIVE SumLen(_)
SumLen(S) == IF S = {} THEN 0
             ELSE LET r == CHOOSE r \in S : TRUE IN r[2] + SumLen(S \ {r})

\* ------------------------------------------------------------- MemorySlots
\* The Slot Tracker: free ranges <<offset, length>>, reserved ranges
\* <<offset, size>> and the running total of reserved bytes.
\* (An operator's result is handed on as a parameter rather than bound by LET
\* and used several times: TLC's coverage expands every use of a LET name.)
MemorySlots_new(blockSize, memoryTracking) ==
    [totalMemorySize |-> blockSize,
     available       |-> IF blockSize > 0 THEN {<<0, blockSize>>} ELSE {},
     reserved        |-> {},
     totalReserved   |-> 0,
     memoryTracking  |-> memoryTracking]

AlignUp(offset, alignment) == ((offset + alignment - 1) \div alignment) * alignment

\* The free ranges that can hold size bytes at an aligned offset.
FittingSlots(ms, size, alignment) ==
    {r \in ms.available : AlignUp(r[1], alignment) + size <= r[1] + r[2]}

\* The lowest-address range of fit.
FirstSlot(fit) == CHOOSE r \in fit : \A q \in fit : r[1] <= q[1]

\* slot is split: [start, start + size) becomes reserved, the padding before
\* start and the rest after it stay free.
ReserveAt(ms, slot, start, size) ==
    [ok |-> TRUE, offset |-> start,
     ms |-> [ms EXCEPT !.available =
                 (@ \ {slot})
                 \cup (IF start > slot[1] THEN {<<slot[1], start - slot[1]>>} ELSE {})
                 \cup (IF start + size < slot[1] + slot[2]
                       THEN {<<start + size, slot[1] + slot[2] - (start + size)>>} ELSE {}),
             !.reserved = @ \cup {<<start, size>>},
             !.totalReserved = @ + size]]

ReserveIn(ms, slot, size, alignment) == ReserveAt(ms, slot, AlignUp(slot[1], alignment), size)

ReserveFrom(ms, fit, size, alignment) ==
    IF fit = {} THEN [ok |-> FALSE, offset |-> 0, ms |-> ms]
    ELSE ReserveIn(ms, FirstSlot(fit), size, alignment)

\* reserve(size, alignment): first fit, the lowest-address fitting free range.
MemorySlots_reserve(ms, size, alignment) ==
    ReserveFrom(ms, FittingSlots(ms, size, alignment), size, alignment)

\* [start, end) becomes one free range in place of the ranges before and after.
ReleaseMerged(ms, offset, size, before, after, start, end) ==
    [ok |-> TRUE,
     ms |-> [ms EXCEPT !.available = (@ \ (before \cup after)) \cup {<<start, end - start>>},
                       !.reserved = @ \ {<<offset, size>>},
                       !.totalReserved = @ - size]]

ReleaseBetween(ms, offset, size, before, after) ==
    ReleaseMerged(ms, offset, size, before, after,
                  IF before = {} THEN offset ELSE SetMin({r[1] : r \in before}),
                  IF after = {} THEN offset + size ELSE SetMax({r[1] + r[2] : r \in after}))

\* release(offset, size): false when the range is not reserved; otherwise the
\* range becomes free and merges with the free ranges that touch it.
MemorySlots_release(ms, offset, size) ==
    IF <<offset, size>> \notin ms.reserved THEN [ok |-> FALSE, ms |-> ms]
    ELSE ReleaseBetween(ms, offset, size,
                        {r \in ms.available : r[1] + r[2] = offset},
                        {r \in ms.available : r[1] = offset + size})

MemorySlots_empty(ms) == ms.totalReserved = 0
MemorySlots_totalMemorySize(ms) == ms.totalMemorySize
MemorySlots_totalReservedSize(ms) == ms.totalReserved
MemorySlots_totalAvailableSize(ms) == SumLen(ms.available)
MemorySlots_maximumAvailableSpace(ms) ==
    IF ms.available = {} THEN 0 ELSE SetMax({r[2] : r \in ms.available})

\* ------------------------------------------------------------- MemoryBlock
\* MemoryBlock(blockSize, memoryTracking, in_alignment); memory is the address
\* operator new returned for it.
MemoryBlock_new(blockSize, memoryTracking, in_alignment, memory) ==
    [memorySlots     |-> MemorySlots_new(blockSize, memoryTracking),
     alignment       |-> in_alignment,
     block_alignment |-> Max(Max(in_alignment, AlignofMaxAlignT), BlockAlignmentFloor),
     memory          |-> memory]

\* MemoryBlock::allocate with line 562 returning memory, the offset left out.
Allocated_withoutOffset(block, reserved) ==
    IF reserved.ok
    THEN [ptr |-> block.memory, block |-> [block EXCEPT !.memorySlots = reserved.ms]]
    ELSE [ptr |-> nullptr, block |-> block]

\* What MemoryBlock::allocate makes of reserve's result.
Allocated(block, reserved) ==
    IF reserved.ok
    THEN [ptr |-> block.memory + reserved.offset, block |-> [block EXCEPT !.memorySlots = reserved.ms]]
    ELSE [ptr |-> nullptr, block |-> block]

\* MemoryBlock::allocate with line 560 reserving without the block's alignment.
MemoryBlock_allocate_unaligned(block, size) ==
    Allocated(block, MemorySlots_reserve(block.memorySlots, size, 1))

MemoryBlock_allocate(block, size) ==
    Allocated(block, MemorySlots_reserve(block.memorySlots, size, block.alignment))

\* MemoryBlock::deallocate with line 578 returning what release returned.
Deallocated_asReleased(block, released) ==
    [ret |-> released.ok, released |-> released.ok, block |-> [block EXCEPT !.memorySlots = released.ms]]

\* What MemoryBlock::deallocate makes of release's result: true either way.
Deallocated(block, released) ==
    [ret |-> TRUE, released |-> released.ok, block |-> [block EXCEPT !.memorySlots = released.ms]]

\* MemoryBlock::deallocate taking size off the reserved total itself when
\* release fails, instead of only warning (lines 574-577).
MemoryBlock_deallocate_forced(block, ptr, size) ==
    IF ptr >= block.memory /\ ptr - block.memory < MemorySlots_totalMemorySize(block.memorySlots)
    THEN (IF MemorySlots_release(block.memorySlots, ptr - block.memory, size).ok
          THEN Deallocated(block, MemorySlots_release(block.memorySlots, ptr - block.memory, size))
          ELSE [ret |-> TRUE, released |-> FALSE,
                block |-> [block EXCEPT !.memorySlots.totalReserved = @ - size]])
    ELSE [ret |-> FALSE, released |-> FALSE, block |-> block]

MemoryBlock_deallocate(block, ptr, size) ==
    IF ptr >= block.memory /\ ptr - block.memory < MemorySlots_totalMemorySize(block.memorySlots)
    THEN Deallocated(block, MemorySlots_release(block.memorySlots, ptr - block.memory, size))
    ELSE [ret |-> FALSE, released |-> FALSE, block |-> block]

\* ------------------------------------------------------------ MemoryBlocks
\* memoryBlocks is the std::map from a block's memory to the block;
\* latestMemoryBlock names a block by its memory, nullptr when unset.
NoBlocks == [m \in {} |-> Null]

MemoryBlocks_new(in_name, in_blockSize, in_alignment) ==
    [name              |-> in_name,
     blockSize         |-> in_blockSize,
     alignment         |-> in_alignment,
     memoryBlocks      |-> NoBlocks,
     latestMemoryBlock |-> nullptr]

\* MemoryBlocks::allocate with latestMemoryBlock = block added before the
\* return of line 623: the block that served becomes the cached one.
FromExisting_cached(mbs, m, r) ==
    [ptr |-> r.ptr, created |-> FALSE, thrown |-> FALSE,
     mbs |-> [mbs EXCEPT !.memoryBlocks[m] = r.block, !.latestMemoryBlock = m]]

\* The pointer is returned and the block it came from is stored back.
FromExisting(mbs, m, r) ==
    [ptr |-> r.ptr, created |-> FALSE, thrown |-> FALSE,
     mbs |-> [mbs EXCEPT !.memoryBlocks[m] = r.block]]

\* Lines 627-641: the new block becomes latestMemoryBlock and enters the map.
FromNew(mbs, memory, r) ==
    [ptr |-> r.ptr, created |-> TRUE, thrown |-> FALSE,
     mbs |-> [mbs EXCEPT !.latestMemoryBlock = memory,
                         !.memoryBlocks = [m \in DOMAIN @ \cup {memory} |->
                                             IF m = memory THEN r.block ELSE @[m]]]]

\* MemoryBlocks::allocate without line 627: the new block gets blockSize,
\* however large the request.
NewBlock_ofBlockSize(mbs, size, parentTracking, memory) ==
    IF memory = nullptr
    THEN [ptr |-> nullptr, created |-> FALSE, thrown |-> TRUE, mbs |-> mbs]
    ELSE FromNew(mbs, memory,
                 MemoryBlock_allocate(MemoryBlock_new(mbs.blockSize, parentTracking,
                                                      mbs.alignment, memory), size))

NewBlock(mbs, size, parentTracking, memory) ==
    IF memory = nullptr
    THEN [ptr |-> nullptr, created |-> FALSE, thrown |-> TRUE, mbs |-> mbs]
    ELSE FromNew(mbs, memory,
                 MemoryBlock_allocate(MemoryBlock_new(Max(size, mbs.blockSize), parentTracking,
                                                      mbs.alignment, memory), size))

\* Lines 616-625: the blocks other than latestMemoryBlock that can serve the
\* request; the reverse iteration takes the one with the greatest memory.
Serving(mbs, size) ==
    {m \in DOMAIN mbs.memoryBlocks :
        m # mbs.latestMemoryBlock /\ MemoryBlock_allocate(mbs.memoryBlocks[m], size).ptr # nullptr}

\* MemoryBlocks::allocate without the loop of lines 616-625: when
\* latestMemoryBlock cannot serve, a new block is made at once.
ScanOthers_alwaysNew(mbs, size, parentTracking, memory, serving) ==
    NewBlock(mbs, size, parentTracking, memory)

ScanOthers(mbs, size, parentTracking, memory, serving) ==
    IF serving # {}
    THEN FromExisting(mbs, SetMax(serving),
                      MemoryBlock_allocate(mbs.memoryBlocks[SetMax(serving)], size))
    ELSE NewBlock(mbs, size, parentTracking, memory)

\* MemoryBlocks::allocate without lines 610-614: latestMemoryBlock is not
\* tried, the other blocks are.
AfterLatest_skipLatest(mbs, size, parentTracking, memory, fromLatest) ==
    ScanOthers(mbs, size, parentTracking, memory, Serving(mbs, size))

AfterLatest(mbs, size, parentTracking, memory, fromLatest) ==
    IF fromLatest.ptr # nullptr
    THEN FromExisting(mbs, mbs.latestMemoryBlock, fromLatest)
    ELSE ScanOthers(mbs, size, parentTracking, memory, Serving(mbs, size))

\* memory is what operator new returns should a new block be made: an address,
\* or nullptr for std::bad_alloc.
MemoryBlocks_allocate(mbs, size, parentTracking, memory) ==
    AfterLatest(mbs, size, parentTracking, memory,
                IF mbs.latestMemoryBlock # nullptr
                THEN MemoryBlock_allocate(mbs.memoryBlocks[mbs.latestMemoryBlock], size)
                ELSE [ptr |-> nullptr])

\* The block upper_bound(ptr) and the branches after it select.
\* MemoryBlocks::deallocate without the --itr of line 652: the block that
\* upper_bound(ptr) names is asked.
LocateAmong_withoutStepBack(keys, above) ==
    IF above # {} THEN SetMin(above) ELSE SetMax(keys)

LocateAmong(keys, above) ==
    IF above # {}
    THEN (IF SetMin(above) # SetMin(keys)
          THEN SetMax({m \in keys : m < SetMin(above)})
          ELSE SetMin(keys))
    ELSE SetMax(keys)

LocateBlock(mbs, ptr) ==
    LocateAmong(DOMAIN mbs.memoryBlocks, {m \in DOMAIN mbs.memoryBlocks : m > ptr})

\* MemoryBlocks::deallocate erasing the block once its last range is
\* released, as deleteEmptyMemoryBlocks would.
DeallocatedFrom_compacting(mbs, m, r) ==
    IF r.ret /\ MemorySlots_empty(r.block.memorySlots)
    THEN [ret |-> TRUE, released |-> r.released,
          mbs |-> [mbs EXCEPT !.memoryBlocks = [k \in DOMAIN @ \ {m} |-> @[k]],
                              !.latestMemoryBlock = IF @ = m THEN nullptr ELSE @]]
    ELSE IF r.ret
    THEN [ret |-> TRUE, released |-> r.released, mbs |-> [mbs EXCEPT !.memoryBlocks[m] = r.block]]
    ELSE [ret |-> FALSE, released |-> FALSE, mbs |-> mbs]

DeallocatedFrom(mbs, m, r) ==
    IF r.ret THEN [ret |-> TRUE, released |-> r.released, mbs |-> [mbs EXCEPT !.memoryBlocks[m] = r.block]]
    ELSE [ret |-> FALSE, released |-> FALSE, mbs |-> mbs]

DeallocateIn(mbs, m, ptr, size) ==
    DeallocatedFrom(mbs, m, MemoryBlock_deallocate(mbs.memoryBlocks[m], ptr, size))

\* MemoryBlocks::deallocate resetting latestMemoryBlock before the
\* return false of line 673.
Forgetful(mbs, d) ==
    IF d.ret THEN d ELSE [d EXCEPT !.mbs.latestMemoryBlock = nullptr]

MemoryBlocks_deallocate_forgetful(mbs, ptr, size) ==
    IF DOMAIN mbs.memoryBlocks = {} THEN [ret |-> FALSE, released |-> FALSE, mbs |-> mbs]
    ELSE Forgetful(mbs, DeallocateIn(mbs, LocateBlock(mbs, ptr), ptr, size))

MemoryBlocks_deallocate(mbs, ptr, size) ==
    IF DOMAIN mbs.memoryBlocks = {} THEN [ret |-> FALSE, released |-> FALSE, mbs |-> mbs]
    ELSE DeallocateIn(mbs, LocateBlock(mbs, ptr), ptr, size)

\* deleteEmptyMemoryBlocks sparing latestMemoryBlock instead of clearing it
\* (line 694).
EmptyBlocks_exceptLatest(mbs) ==
    {m \in DOMAIN mbs.memoryBlocks :
        m # mbs.latestMemoryBlock /\ MemorySlots_empty(mbs.memoryBlocks[m].memorySlots)}

EmptyBlocks(mbs) ==
    {m \in DOMAIN mbs.memoryBlocks : MemorySlots_empty(mbs.memoryBlocks[m].memorySlots)}

RECURSIVE SumOver(_, _)
SumOver(f, S) == IF S = {} THEN 0
                 ELSE LET x == CHOOSE x \in S : TRUE IN f[x] + SumOver(f, S \ {x})

\* deleteEmptyMemoryBlocks without line 694: latestMemoryBlock keeps naming a
\* block that is erased.
Erased_keepLatest(mbs, gone) ==
    [memoryDeleted |-> SumOver([m \in gone |-> MemorySlots_totalMemorySize(mbs.memoryBlocks[m].memorySlots)], gone),
     mbs |-> [mbs EXCEPT !.memoryBlocks = [m \in DOMAIN @ \ gone |-> @[m]]]]

Erased(mbs, gone) ==
    [memoryDeleted |-> SumOver([m \in gone |-> MemorySlots_totalMemorySize(mbs.memoryBlocks[m].memorySlots)], gone),
     mbs |-> [mbs EXCEPT !.memoryBlocks = [m \in DOMAIN @ \ gone |-> @[m]],
                         !.latestMemoryBlock = IF @ \in gone THEN nullptr ELSE @]]

\* deleteEmptyMemoryBlocks without the test of line 688: every block is erased.
MemoryBlocks_deleteEmptyMemoryBlocks_all(mbs) == Erased(mbs, DOMAIN mbs.memoryBlocks)

MemoryBlocks_deleteEmptyMemoryBlocks(mbs) == Erased(mbs, EmptyBlocks(mbs))

MemoryBlocks_totalAvailableSize(mbs) ==
    SumOver([m \in DOMAIN mbs.memoryBlocks |-> MemorySlots_totalAvailableSize(mbs.memoryBlocks[m].memorySlots)],
            DOMAIN mbs.memoryBlocks)

\* MemoryBlocks::totalReservedSize with line 721 calling totalAvailableSize.
MemoryBlocks_totalReservedSize_available(mbs) ==
    SumOver([m \in DOMAIN mbs.memoryBlocks |-> MemorySlots_totalAvailableSize(mbs.memoryBlocks[m].memorySlots)],
            DOMAIN mbs.memoryBlocks)

MemoryBlocks_totalReservedSize(mbs) ==
    SumOver([m \in DOMAIN mbs.memoryBlocks |-> MemorySlots_totalReservedSize(mbs.memoryBlocks[m].memorySlots)],
            DOMAIN mbs.memoryBlocks)

MemoryBlocks_totalMemorySize(mbs) ==
    SumOver([m \in DOMAIN mbs.memoryBlocks |-> MemorySlots_totalMemorySize(mbs.memoryBlocks[m].memorySlots)],
            DOMAIN mbs.memoryBlocks)

\* --------------------------------------------------------------- Allocator
\* allocatorMemoryBlocks is the std::vector of groups: affinity a is element
\* a + 1 of the sequence.
Allocator_new(default_alignment, allocatorType, nestedAllocator) ==
    [default_alignment     |-> default_alignment,
     memoryTracking        |-> MEMORY_TRACKING_DEFAULT,
     allocatorType         |-> allocatorType,
     nestedAllocator       |-> nestedAllocator,
     allocatorMemoryBlocks |->
        [i \in 1..ALLOCATOR_AFFINITY_LAST |->
            IF i - 1 = ALLOCATOR_AFFINITY_OBJECTS
            THEN MemoryBlocks_new(<<"MemoryBlocks_OBJECTS">>, Megabyte, default_alignment)
            ELSE IF i - 1 = ALLOCATOR_AFFINITY_DATA
            THEN MemoryBlocks_new(<<"MemoryBlocks_DATA">>, 16 * Megabyte, default_alignment)
            ELSE IF i - 1 = ALLOCATOR_AFFINITY_NODES
            THEN MemoryBlocks_new(<<"MemoryBlocks_NODES">>, Megabyte, default_alignment)
            ELSE IF i - 1 = ALLOCATOR_AFFINITY_PHYSICS
            THEN MemoryBlocks_new(<<"MemoryBlocks_PHYSICS">>, Megabyte, PhysicsAlignment)
            ELSE Null]]

\* std::vector::resize(n) for n above the size: the new elements are null.
Resize(v, n) == [i \in 1..n |-> IF i <= Len(v) THEN v[i] ELSE Null]

\* The group of an affinity, Null when the vector has none there.
GroupAt(A, allocatorAffinity) ==
    IF allocatorAffinity < Len(A.allocatorMemoryBlocks)
    THEN A.allocatorMemoryBlocks[allocatorAffinity + 1] ELSE Null

\* Lines 352-364: the vector grows and gets a group only for an affinity
\* above its size.
Grown(A, allocatorAffinity) ==
    IF allocatorAffinity > Len(A.allocatorMemoryBlocks)
    THEN [A EXCEPT !.allocatorMemoryBlocks =
             [Resize(@, allocatorAffinity + 1) EXCEPT ![allocatorAffinity + 1] =
                 MemoryBlocks_new(<<"MemoryBlocks_", allocatorAffinity>>,
                                  AllocateBlockSize, A.default_alignment)]]
    ELSE A

\* Lines 369-386: the group's pointer is returned if it is not null; otherwise
\* the call goes on to line 380.
\* Allocator::allocate with the return of line 376 inside the if of line 372:
\* the pointer is returned only while actions are reported.
Delegated_returnWhenReported(A, allocatorAffinity, r) ==
    [outcome |-> IF r.thrown THEN "bad_alloc"
                 ELSE IF r.ptr # nullptr /\ MEMORY_TRACKING_REPORT_ACTIONS \in A.memoryTracking
                 THEN "returned" ELSE "relock",
     ptr     |-> r.ptr,
     created |-> r.created,
     A       |-> [A EXCEPT !.allocatorMemoryBlocks[allocatorAffinity + 1] = r.mbs]]

Delegated(A, allocatorAffinity, r) ==
    [outcome |-> IF r.thrown THEN "bad_alloc" ELSE IF r.ptr # nullptr THEN "returned" ELSE "relock",
     ptr     |-> r.ptr,
     created |-> r.created,
     A       |-> [A EXCEPT !.allocatorMemoryBlocks[allocatorAffinity + 1] = r.mbs]]

Dispatch(A, size, allocatorAffinity, memory) ==
    IF allocatorAffinity >= Len(A.allocatorMemoryBlocks)
    THEN [outcome |-> "out_of_bounds", ptr |-> nullptr, created |-> FALSE, A |-> A]
    ELSE IF A.allocatorMemoryBlocks[allocatorAffinity + 1] = Null
    THEN [outcome |-> "relock", ptr |-> nullptr, created |-> FALSE, A |-> A]
    ELSE Delegated(A, allocatorAffinity,
                   MemoryBlocks_allocate(A.allocatorMemoryBlocks[allocatorAffinity + 1], size,
                                         A.memoryTracking, memory))

\* Allocator::allocate's body under the lock.  outcome is
\*   "returned"       a pointer is returned,
\*   "bad_alloc"      operator new threw while a block was made,
\*   "out_of_bounds"  allocatorMemoryBlocks[allocatorAffinity] reads past the end,
\*   "relock"         the call reached Allocator::allocate again (line 380),
\*                    which locks the mutex this thread holds.
Allocator_allocate(A, size, allocatorAffinity, memory) ==
    Dispatch(Grown(A, allocatorAffinity), size, allocatorAffinity, memory)

\* The groups, in index order, whose deallocate returns true.
ClaimingGroups(A, ptr, size) ==
    {i \in 1..Len(A.allocatorMemoryBlocks) :
        /\ A.allocatorMemoryBlocks[i] # Null
        /\ MemoryBlocks_deallocate(A.allocatorMemoryBlocks[i], ptr, size).ret}

ClaimedBy(A, i, r) ==
    [ret |-> TRUE, by |-> "group", released |-> r.released,
     A |-> [A EXCEPT !.allocatorMemoryBlocks[i] = r.mbs]]

\* Lines 409-420.
SystemDeallocate(A) ==
    IF A.allocatorType = ALLOCATOR_TYPE_NEW_DELETE
    THEN [ret |-> TRUE, by |-> "delete", released |-> FALSE, A |-> A]
    ELSE IF A.allocatorType = ALLOCATOR_TYPE_MALLOC_FREE
    THEN [ret |-> TRUE, by |-> "free", released |-> FALSE, A |-> A]
    ELSE [ret |-> FALSE, by |-> "none", released |-> FALSE, A |-> A]

\* Line 407.
ByNested(A, r) ==
    IF r.ret THEN [ret |-> TRUE, by |-> "nested", released |-> r.released,
                   A |-> [A EXCEPT !.nestedAllocator = r.A]]
    ELSE SystemDeallocate(A)

\* Allocator::deallocate's body under the lock.  by is "group", "nested",
\* "delete" (operator delete), "free" (std::free) or "none".
RECURSIVE Allocator_deallocate(_, _, _)
\* Allocator::deallocate with line 407 moved above the loop of lines 392-405:
\* the nested allocator is asked first.
DeallocateAmong_nestedFirst(A, ptr, size, claiming) ==
    IF A.nestedAllocator # Null /\ Allocator_deallocate(A.nestedAllocator, ptr, size).ret
    THEN ByNested(A, Allocator_deallocate(A.nestedAllocator, ptr, size))
    ELSE IF claiming # {}
    THEN ClaimedBy(A, SetMin(claiming),
                   MemoryBlocks_deallocate(A.allocatorMemoryBlocks[SetMin(claiming)], ptr, size))
    ELSE SystemDeallocate(A)

DeallocateAmong(A, ptr, size, claiming) ==
    IF claiming # {}
    THEN ClaimedBy(A, SetMin(claiming),
                   MemoryBlocks_deallocate(A.allocatorMemoryBlocks[SetMin(claiming)], ptr, size))
    ELSE IF A.nestedAllocator # Null
    THEN ByNested(A, Allocator_deallocate(A.nestedAllocator, ptr, size))
    ELSE SystemDeallocate(A)

Allocator_deallocate(A, ptr, size) == DeallocateAmong(A, ptr, size, ClaimingGroups(A, ptr, size))

Groups(A) == {i \in 1..Len(A.allocatorMemoryBlocks) : A.allocatorMemoryBlocks[i] # Null}

Allocator_deleteEmptyMemoryBlocks(A) ==
    [memoryDeleted |-> SumOver([i \in Groups(A) |->
                          MemoryBlocks_deleteEmptyMemoryBlocks(A.allocatorMemoryBlocks[i]).memoryDeleted],
                          Groups(A)),
     A |-> [A EXCEPT !.allocatorMemoryBlocks =
              [i \in 1..Len(@) |-> IF @[i] # Null
                                   THEN MemoryBlocks_deleteEmptyMemoryBlocks(@[i]).mbs ELSE @[i]]]]

Allocator_totalAvailableSize(A) ==
    SumOver([i \in Groups(A) |-> MemoryBlocks_totalAvailableSize(A.allocatorMemoryBlocks[i])], Groups(A))

Allocator_totalReservedSize(A) ==
    SumOver([i \in Groups(A) |-> MemoryBlocks_totalReservedSize(A.allocatorMemoryBlocks[i])], Groups(A))

Allocator_totalMemorySize(A) ==
    SumOver([i \in Groups(A) |-> MemoryBlocks_totalMemorySize(A.allocatorMemoryBlocks[i])], Groups(A))

\* Lines 517-526 of setMemoryTracking: every block's memorySlots gets mt.
MemoryBlocks_setTracking(mbs, mt) ==
    [mbs EXCEPT !.memoryBlocks =
        [m \in DOMAIN mbs.memoryBlocks |-> [mbs.memoryBlocks[m] EXCEPT !.memorySlots.memoryTracking = mt]]]

Allocator_setBlocksTracking(A, mt) ==
    [A EXCEPT !.allocatorMemoryBlocks =
        [i \in 1..Len(A.allocatorMemoryBlocks) |->
            IF A.allocatorMemoryBlocks[i] # Null
            THEN MemoryBlocks_setTracking(A.allocatorMemoryBlocks[i], mt)
            ELSE Null]]

\* Allocator::setMemoryTracking(mt).
Allocator_setMemoryTracking(A, mt) ==
    Allocator_setBlocksTracking([A EXCEPT !.memoryTracking = mt], mt)

\* Lines 501-504 of setBlockSize: the group at the affinity gets blockSize; the
\* vector may hold no group there, and the arrow dereferences a null pointer.
SetBlockSize_existing(A, allocatorAffinity, blockSize) ==
    IF A.allocatorMemoryBlocks[allocatorAffinity + 1] = Null
    THEN [outcome |-> "null_deref", A |-> A]
    ELSE [outcome |-> "done",
          A |-> [A EXCEPT !.allocatorMemoryBlocks[allocatorAffinity + 1].blockSize = blockSize]]

\* Allocator::setBlockSize(allocatorAffinity, blockSize).
Allocator_setBlockSize(A, allocatorAffinity, blockSize) ==
    IF allocatorAffinity < Len(A.allocatorMemoryBlocks)
    THEN SetBlockSize_existing(A, allocatorAffinity, blockSize)
    ELSE [outcome |-> "done",
          A |-> [A EXCEPT !.allocatorMemoryBlocks =
                    [Resize(@, allocatorAffinity + 1) EXCEPT ![allocatorAffinity + 1] =
                        MemoryBlocks_new(<<"MemoryBlocks_", allocatorAffinity>>,
                                         blockSize, A.default_alignment)]]]

\* Lines 483-488 of getOrCreateMemoryBlocks: the group at the affinity gets
\* name, blockSize and alignment; the vector may hold no group there, and the
\* arrow dereferences a null pointer.
GetOrCreate_existing(A, allocatorAffinity, name, blockSize, alignment) ==
    IF A.allocatorMemoryBlocks[allocatorAffinity + 1] = Null
    THEN [outcome |-> "null_deref", A |-> A]
    ELSE [outcome |-> "done",
          A |-> [A EXCEPT !.allocatorMemoryBlocks[allocatorAffinity + 1].name = name,
                          !.allocatorMemoryBlocks[allocatorAffinity + 1].blockSize = blockSize,
                          !.allocatorMemoryBlocks[allocatorAffinity + 1].alignment = alignment]]

\* Allocator::getOrCreateMemoryBlocks(allocatorAffinity, name, blockSize,
\* alignment); the group it returns is the one at the affinity in A.
Allocator_getOrCreateMemoryBlocks(A, allocatorAffinity, name, blockSize, alignment) ==
    IF allocatorAffinity < Len(A.allocatorMemoryBlocks)
    THEN GetOrCreate_existing(A, allocatorAffinity, name, blockSize, alignment)
    ELSE [outcome |-> "done",
          A |-> [A EXCEPT !.allocatorMemoryBlocks =
                    [Resize(@, allocatorAffinity + 1) EXCEPT ![allocatorAffinity + 1] =
                        MemoryBlocks_new(name, blockSize, alignment)]]]

\* Line 307 built without the guard of the static's initialisation
\* (-fno-threadsafe-statics): whoever finds it not yet initialised constructs.
StaticInit_unguarded(state) ==
    IF state = "initialized" THEN "use" ELSE "construct"

\* Allocator::instance(), line 307: what a thread does at the declaration of
\* the function-local static, given the state of its initialisation.
StaticInit(state) ==
    IF state = "uninitialized" THEN "construct"
    ELSE IF state = "initializing" THEN "wait"
    ELSE "use"

\* ------------------------------------------------------------ environment
\* The addresses operator new can return for a block: slot k starts at
\* k * SlotStride + 16 * k, so the slots differ in how far they are aligned.
SlotStride == 2 * Megabyte
HeapBases == {k * SlotStride + 16 * k : k \in 1..NumSlots}

RECURSIVE AllBlocks(_)
AllBlocks(A) ==
    UNION {{A.allocatorMemoryBlocks[i].memoryBlocks[m] : m \in DOMAIN A.allocatorMemoryBlocks[i].memoryBlocks} :
              i \in Groups(A)}
    \cup (IF A.nestedAllocator # Null THEN AllBlocks(A.nestedAllocator) ELSE {})

BlockEnd(b) == b.memory + MemorySlots_totalMemorySize(b.memorySlots)

\* operator new(blockSize, align_val_t{block_alignment}) may return the memory
\* of block b: it is aligned as asked and overlaps no block that exists in A.
OperatorNewMayReturn(A, b) ==
    /\ b.memory % b.block_alignment = 0
    /\ \A o \in AllBlocks(A) : BlockEnd(b) <= o.memory \/ BlockEnd(o) <= b.memory

\* ------------------------------------------------------------------ inputs
Sizes == {3, Megabyte + 8}
\* The affinities the clients pass: PHYSICS (a group the constructor makes,
\* alignment 16) and the first two values past the constructor's groups
\* (alignment default_alignment).
Affinities == {ALLOCATOR_AFFINITY_PHYSICS, ALLOCATOR_AFFINITY_LAST, ALLOCATOR_AFFINITY_LAST + 1}
\* The calls allocate(size, allocatorAffinity) the sequential client makes.
Calls == {<<3, ALLOCATOR_AFFINITY_PHYSICS>>, <<Megabyte + 8, ALLOCATOR_AFFINITY_PHYSICS>>,
          <<3, ALLOCATOR_AFFINITY_LAST>>, <<3, ALLOCATOR_AFFINITY_LAST + 1>>}
Threads == 1..NumThreads

\* What a build can do once a thread locks the std::mutex it already holds, or
\* reads allocatorMemoryBlocks past its end (undefined behaviour): the thread
\* blocks forever, std::system_error is thrown, or the process dies.
UndefinedOutcomes == {"deadlock", "system_error", "crash"}

VARIABLES
    alloc,        \* the Allocator; Null before the singleton is constructed
    mutex,        \* Allocator::mutex: 0 when free, else the thread that holds it
    crashed,      \* "no", or what the process died of
    live,         \* bag of <<ptr, size>>: returned by allocate, not yet deallocated
    s_allocator,  \* the initialisation state of instance()'s static s_allocator
    constructed,  \* how many times Allocator's constructor has run
    threads       \* each client thread: where it is, its arguments, what it holds

vars == <<alloc, mutex, crashed, live, s_allocator, constructed, threads>>

\* The allocator the sequential specification starts from: it falls back on
\* operator new / delete and has a nested allocator.
Configurations ==
    {Allocator_new(in_default_alignment, ALLOCATOR_TYPE_NEW_DELETE,
                   Allocator_new(in_default_alignment, ALLOCATOR_TYPE_NO_FALLBACK, Null))}

\* pc is where the thread is:
\*   "start"              it has not called instance() yet
\*   "init"               it runs the initialiser of s_allocator (line 307)
\*   "idle"               between two calls
\*   "allocate"           in Allocator::allocate, past line 349, holding the mutex
\*   "out_of_bounds"      at line 366 with allocatorAffinity = size of the vector
\*   "relock"             at line 380: calling Allocator::allocate, mutex held
\*   "blocked"            waiting for ever in std::mutex::lock
\*   "deallocate"         in Allocator::deallocate, past line 390
\*   "setMemoryTracking"  in Allocator::setMemoryTracking, past line 516
\*   "report"             in Allocator::report, between two of its locked parts
\*   "reported"           at the end of Allocator::report
\*   "dead"               the process has died
\* report is what the thread's call of Allocator::report has written so far.
NoReport == << >>

Thread(pc, size, affinity, ptr, instance, mt) ==
    [pc |-> pc, size |-> size, affinity |-> affinity, ptr |-> ptr, instance |-> instance, mt |-> mt,
     report |-> NoReport]

\* The block of group allocatorAffinity of A at memory.
BlockAt(A, allocatorAffinity, memory) ==
    A.allocatorMemoryBlocks[allocatorAffinity + 1].memoryBlocks[memory]

\* The block that latestMemoryBlock of group allocatorAffinity names.
LatestBlock(A, allocatorAffinity) ==
    BlockAt(A, allocatorAffinity, A.allocatorMemoryBlocks[allocatorAffinity + 1].latestMemoryBlock)

\* The results Allocator::allocate(size, allocatorAffinity) can have in A, one
\* for each address operator new may return (one in all when no block is made).
ResultsGiven(A, size, allocatorAffinity, r) ==
    IF r.outcome # "bad_alloc" THEN {r}
    ELSE {r} \cup {q \in {Allocator_allocate(A, size, allocatorAffinity, memory) : memory \in HeapBases} :
                      q.created => OperatorNewMayReturn(A, LatestBlock(q.A, allocatorAffinity))}

AllocateResults(A, size, allocatorAffinity) ==
    ResultsGiven(A, size, allocatorAffinity, Allocator_allocate(A, size, allocatorAffinity, nullptr))

\* The process dies of cause: nothing is left of its heap.
Crash(cause) ==
    /\ crashed' = cause
    /\ mutex' = 0
    /\ alloc' = Allocator_new(in_default_alignment, ALLOCATOR_TYPE_NO_FALLBACK, Null)
    /\ live' = EmptyBag
    /\ threads' = [t \in Threads |-> Thread("dead", 0, 0, nullptr, threads[t].instance, MEMORY_TRACKING_DEFAULT)]
    /\ UNCHANGED <<s_allocator, constructed>>

\* Thread t leaves the call it is in: scoped_lock's destructor unlocks.
Return(t, ptr) ==
    /\ mutex' = 0
    /\ threads' = [threads EXCEPT ![t].pc = "idle", ![t].ptr = ptr]

\* Thread t, holding the mutex, is in Allocator::allocate with result r.
Allocated_By(t, size, r) ==
    \/ /\ r.outcome = "returned"
       /\ alloc' = r.A
       /\ live' = live (+) SetToBag({<<r.ptr, size>>})
       /\ Return(t, r.ptr)
       /\ UNCHANGED <<crashed, s_allocator, constructed>>
    \/ /\ r.outcome = "bad_alloc"
       /\ alloc' = r.A
       /\ Return(t, threads[t].ptr)
       /\ UNCHANGED <<crashed, live, s_allocator, constructed>>
    \/ /\ r.outcome \in {"relock", "out_of_bounds"}
       /\ alloc' = r.A
       /\ mutex' = t
       /\ threads' = [threads EXCEPT ![t].pc = r.outcome]
       /\ UNCHANGED <<crashed, live, s_allocator, constructed>>

\* What undefined behaviour makes of thread t, which holds the mutex.
Undefined(t, cause) ==
    \E undefined \in UndefinedOutcomes :
        \/ /\ undefined = "deadlock"
           /\ mutex' = t
           /\ threads' = [threads EXCEPT ![t].pc = "blocked"]
           /\ UNCHANGED <<alloc, crashed, live, s_allocator, constructed>>
        \/ /\ undefined = "system_error"
           /\ Return(t, threads[t].ptr)
           /\ UNCHANGED <<alloc, crashed, live, s_allocator, constructed>>
        \/ /\ undefined = "crash"
           /\ Crash(cause)

\* Line 380: thread t calls Allocator::allocate again and line 349 locks the
\* mutex that t holds.
Relock(t) ==
    /\ threads[t].pc = "relock"
    /\ Undefined(t, "relock")

\* Line 366: thread t reads allocatorMemoryBlocks[allocatorAffinity], one past
\* the vector's last element.
OutOfBounds(t) ==
    /\ threads[t].pc = "out_of_bounds"
    /\ Undefined(t, "out_of_bounds")

\* ---------------------------------------------------------------------------
\* Spec: one client (thread 1) calls the operations of an Allocator it has
\* constructed.  Each action is a whole call, from the scoped_lock to the
\* return, or to the place where the call stops.
Init ==
    /\ alloc \in Configurations
    /\ mutex = 0
    /\ crashed = "no"
    /\ live = EmptyBag
    /\ s_allocator = "initialized"
    /\ constructed = 1
    /\ threads = [t \in Threads |-> Thread("idle", 0, 0, nullptr, 1, MEMORY_TRACKING_DEFAULT)]

\* The client may start a call.
Callable == mutex = 0 /\ crashed = "no"

\* Allocator::allocate(size, allocatorAffinity), to its return or to what the
\* undefined behaviour it runs into makes of it.
Allocate(size, allocatorAffinity) ==
    /\ Callable
    /\ BagCardinality(live) < MaxLive
    /\ \E r \in AllocateResults(alloc, size, allocatorAffinity) :
          \/ /\ r.outcome \in {"returned", "bad_alloc"}
             /\ Allocated_By(1, size, r)
          \/ /\ r.outcome \in {"relock", "out_of_bounds"}
             /\ Undefined(1, r.outcome)

\* Allocator::deallocate(ptr, size) of an allocation the client holds.
Deallocate(ptr, size) ==
    /\ Callable
    /\ BagIn(<<ptr, size>>, live)
    /\ alloc' = Allocator_deallocate(alloc, ptr, size).A
    /\ live' = live (-) SetToBag({<<ptr, size>>})
    /\ UNCHANGED <<mutex, crashed, s_allocator, constructed, threads>>

\* Allocator::deallocate(ptr, size) of a range inside a block that the client
\* does not hold: a double free, a wrong size, a pointer into an allocation.
MisusePtrs == {b.memory : b \in AllBlocks(alloc)}
MisuseSizes == {3, 4}

DeallocateMisuse(ptr, size) ==
    /\ Callable
    /\ ptr \in MisusePtrs
    /\ ~BagIn(<<ptr, size>>, live)
    /\ alloc' = Allocator_deallocate(alloc, ptr, size).A
    /\ UNCHANGED <<mutex, crashed, live, s_allocator, constructed, threads>>

DeleteEmptyMemoryBlocks ==
    /\ Callable
    /\ alloc' = Allocator_deleteEmptyMemoryBlocks(alloc).A
    /\ UNCHANGED <<mutex, crashed, live, s_allocator, constructed, threads>>

Next ==
    \/ \E call \in Calls : Allocate(call[1], call[2])
    \/ \E x \in BagToSet(live) : Deallocate(x[1], x[2])
    \/ \E ptr \in MisusePtrs, size \in MisuseSizes : DeallocateMisuse(ptr, size)
    \/ DeleteEmptyMemoryBlocks

Spec == Init /\ [][Next]_vars

\* ---------------------------------------------------------------------------
\* SpecGroup: the client works on one affinity, so that one group is filled,
\* grown, drained and compacted.
GroupCalls == {<<3, ALLOCATOR_AFFINITY_PHYSICS>>, <<Megabyte + 8, ALLOCATOR_AFFINITY_PHYSICS>>}

NextGroup ==
    \/ \E call \in GroupCalls : Allocate(call[1], call[2])
    \/ \E x \in BagToSet(live) : Deallocate(x[1], x[2])
    \/ DeleteEmptyMemoryBlocks

SpecGroup == Init /\ [][NextGroup]_vars

\* ---------------------------------------------------------------------------
\* SpecRouting: the client makes small allocations on two affinities, one of a
\* group the constructor makes and one of a group allocate makes, and frees
\* with right and wrong arguments.
RoutingCalls == {<<3, ALLOCATOR_AFFINITY_PHYSICS>>, <<3, ALLOCATOR_AFFINITY_LAST + 1>>}

NextRouting ==
    \/ \E call \in RoutingCalls : Allocate(call[1], call[2])
    \/ \E x \in BagToSet(live) : Deallocate(x[1], x[2])
    \/ \E ptr \in MisusePtrs, size \in MisuseSizes : DeallocateMisuse(ptr, size)
    \/ DeleteEmptyMemoryBlocks

SpecRouting == Init /\ [][NextRouting]_vars

\* ---------------------------------------------------------------------------
\* SpecThreads: NumThreads threads use the singleton.  Each first calls
\* Allocator::instance(), then runs allocate / deallocate pairs and calls
\* setMemoryTracking.  A step is what a thread does between two points where
\* another thread can run: taking the lock, the body of a call under the lock,
\* a part of a body that runs without the lock.
ThreadSizes == {3}
ThreadAffinities == {ALLOCATOR_AFFINITY_LAST, ALLOCATOR_AFFINITY_LAST + 1}
TrackingModes == {MEMORY_TRACKING_DEFAULT, {MEMORY_TRACKING_REPORT_ACTIONS}}

InitThreads ==
    /\ alloc = Null
    /\ mutex = 0
    /\ crashed = "no"
    /\ live = EmptyBag
    /\ s_allocator = "uninitialized"
    /\ constructed = 0
    /\ threads = [t \in Threads |-> Thread("start", 0, 0, nullptr, 0, MEMORY_TRACKING_DEFAULT)]

\* Thread t reaches line 307.  The first thread there runs the initialiser; a
\* thread that arrives while it runs waits; later ones use the object.
Instance_Enter(t) ==
    /\ threads[t].pc = "start"
    /\ \/ /\ StaticInit(s_allocator) = "construct"
          /\ s_allocator' = "initializing"
          /\ threads' = [threads EXCEPT ![t].pc = "init"]
          /\ UNCHANGED constructed
       \/ /\ StaticInit(s_allocator) = "use"
          /\ threads' = [threads EXCEPT ![t].pc = "idle", ![t].instance = constructed]
          /\ UNCHANGED <<s_allocator, constructed>>
    /\ UNCHANGED <<alloc, mutex, crashed, live>>

\* new Allocator() at line 307, by the thread that runs the initialiser.
Instance_Construct(t) ==
    /\ threads[t].pc = "init"
    /\ alloc' = Allocator_new(in_default_alignment, ALLOCATOR_TYPE_NEW_DELETE, Null)
    /\ constructed' = constructed + 1
    /\ s_allocator' = "initialized"
    /\ threads' = [threads EXCEPT ![t].pc = "idle", ![t].instance = constructed + 1]
    /\ UNCHANGED <<mutex, crashed, live>>

\* Line 349: thread t, which holds no allocation, enters allocate.
Allocate_Lock(t, size, allocatorAffinity) ==
    /\ threads[t].pc = "idle" /\ threads[t].ptr = nullptr
    /\ BagCardinality(live) < MaxLive
    /\ mutex = 0
    /\ mutex' = t
    /\ threads' = [threads EXCEPT ![t].pc = "allocate", ![t].size = size, ![t].affinity = allocatorAffinity]
    /\ UNCHANGED <<alloc, crashed, live, s_allocator, constructed>>

\* Lines 350-386 under the lock.
Allocate_Body(t) ==
    /\ threads[t].pc = "allocate"
    /\ \E r \in AllocateResults(alloc, threads[t].size, threads[t].affinity) :
          Allocated_By(t, threads[t].size, r)

\* Line 390: thread t enters deallocate with the allocation it holds.
Deallocate_Lock(t) ==
    /\ threads[t].pc = "idle" /\ threads[t].ptr # nullptr
    /\ mutex = 0
    /\ mutex' = t
    /\ threads' = [threads EXCEPT ![t].pc = "deallocate"]
    /\ UNCHANGED <<alloc, crashed, live, s_allocator, constructed>>

\* Lines 391-421 under the lock.
Deallocate_Body(t) ==
    /\ threads[t].pc = "deallocate"
    /\ alloc' = Allocator_deallocate(alloc, threads[t].ptr, threads[t].size).A
    /\ live' = live (-) SetToBag({<<threads[t].ptr, threads[t].size>>})
    /\ Return(t, nullptr)
    /\ UNCHANGED <<crashed, s_allocator, constructed>>

\* Thread t runs in setMemoryTracking while another thread is in a call that
\* reads or writes the same objects: a data race.
Racing(t) ==
    \E u \in Threads \ {t} :
        threads[u].pc \in {"allocate", "out_of_bounds", "relock", "blocked", "deallocate", "setMemoryTracking"}

\* Line 516, which no lock precedes.
SetMemoryTracking_Write(t, mt) ==
    /\ threads[t].pc = "idle"
    /\ mt # alloc.memoryTracking
    /\ \/ /\ alloc' = [alloc EXCEPT !.memoryTracking = mt]
          /\ threads' = [threads EXCEPT ![t].pc = "setMemoryTracking", ![t].mt = mt]
          /\ UNCHANGED <<mutex, crashed, live, s_allocator, constructed>>
       \/ /\ Racing(t)
          /\ Crash("race")

\* Lines 517-526, still without the lock.
SetMemoryTracking_Loop(t) ==
    /\ threads[t].pc = "setMemoryTracking"
    /\ \/ /\ alloc' = Allocator_setBlocksTracking(alloc, threads[t].mt)
          /\ threads' = [threads EXCEPT ![t].pc = "idle"]
          /\ UNCHANGED <<mutex, crashed, live, s_allocator, constructed>>
       \/ /\ Racing(t)
          /\ Crash("race")

NextThreads ==
    \E t \in Threads :
        \/ Instance_Enter(t)
        \/ Instance_Construct(t)
        \/ \E size \in ThreadSizes, allocatorAffinity \in ThreadAffinities :
              Allocate_Lock(t, size, allocatorAffinity)
        \/ Allocate_Body(t)
        \/ Relock(t)
        \/ OutOfBounds(t)
        \/ Deallocate_Lock(t)
        \/ Deallocate_Body(t)
        \/ \E mt \in TrackingModes : SetMemoryTracking_Write(t, mt)
        \/ SetMemoryTracking_Loop(t)

SpecThreads == InitThreads /\ [][NextThreads]_vars

\* ---------------------------------------------------------------------------
\* SpecReport: thread Reporter calls Allocator::report while the threads run
\* allocate / deallocate pairs on one affinity.  report() locks the mutex four
\* times for its header (lines 314-315: totalAvailableSize(),
\* totalReservedSize(), totalMemorySize(), totalReservedSize()) and once for
\* its two loops (line 317); between two of these any thread may run.
Reporter == 1

\* The value the n-th locked call of lines 314-315 returns.
HeaderValue(A, n) ==
    IF n = 1 THEN Allocator_totalAvailableSize(A)
    ELSE IF n = 3 THEN Allocator_totalMemorySize(A)
    ELSE Allocator_totalReservedSize(A)

\* Lines 318-330: used of every group.
GroupsUsed(A) ==
    [i \in Groups(A) |-> MemoryBlocks_totalReservedSize(A.allocatorMemoryBlocks[i])]

\* Lines 332-344: used and avail of every block of every group.
BlocksUsed(A) ==
    [i \in Groups(A) |->
        [m \in DOMAIN A.allocatorMemoryBlocks[i].memoryBlocks |->
            <<MemorySlots_totalReservedSize(A.allocatorMemoryBlocks[i].memoryBlocks[m].memorySlots),
              MemorySlots_maximumAvailableSpace(A.allocatorMemoryBlocks[i].memoryBlocks[m].memorySlots)>>]]

\* One of the four calls of lines 314-315: each locks the mutex, sums and
\* unlocks.
Report_Header(t) ==
    /\ t = Reporter
    /\ \/ threads[t].pc = "idle" /\ threads[t].ptr = nullptr
       \/ threads[t].pc = "report"
    /\ Len(threads[t].report) < 4
    /\ mutex = 0
    /\ threads' = [threads EXCEPT ![t].pc = "report",
                                  ![t].report = Append(@, HeaderValue(alloc, Len(@) + 1))]
    /\ UNCHANGED <<alloc, mutex, crashed, live, s_allocator, constructed>>

\* Lines 317-344 under the lock.
Report_Groups(t) ==
    /\ threads[t].pc = "report"
    /\ Len(threads[t].report) = 4
    /\ mutex = 0
    /\ threads' = [threads EXCEPT ![t].pc = "reported",
                                  ![t].report = @ \o <<GroupsUsed(alloc), BlocksUsed(alloc)>>]
    /\ UNCHANGED <<alloc, mutex, crashed, live, s_allocator, constructed>>

\* Line 345.
Report_Return(t) ==
    /\ threads[t].pc = "reported"
    /\ threads' = [threads EXCEPT ![t].pc = "idle", ![t].report = NoReport]
    /\ UNCHANGED <<alloc, mutex, crashed, live, s_allocator, constructed>>

NextReport ==
    \E t \in Threads :
        \/ Allocate_Lock(t, 3, ALLOCATOR_AFFINITY_PHYSICS)
        \/ Allocate_Body(t)
        \/ Deallocate_Lock(t)
        \/ Deallocate_Body(t)
        \/ Report_Header(t)
        \/ Report_Groups(t)
        \/ Report_Return(t)

SpecReport == Init /\ [][NextReport]_vars

\* ---------------------------------------------------------------------------
\* Properties.

\* reserved + available = capacity in block b.
CapacityHolds(b) ==
    MemorySlots_totalReservedSize(b.memorySlots) + MemorySlots_totalAvailableSize(b.memorySlots)
        = MemorySlots_totalMemorySize(b.memorySlots)

\* C1: after any sequence of allocate, deallocate and deleteEmptyMemoryBlocks
\* calls, every Memory Block has reserved + available = capacity, and
\* totalAvailableSize() + totalReservedSize() = totalMemorySize().
C1_CapacityInvariant ==
    /\ \A b \in AllBlocks(alloc) : CapacityHolds(b)
    /\ Allocator_totalAvailableSize(alloc) + Allocator_totalReservedSize(alloc)
           = Allocator_totalMemorySize(alloc)

\* C1's case: two blocks exist, one of them with a reservation between free
\* ranges.
C1_Witness ==
    /\ Cardinality(AllBlocks(alloc)) >= 2
    /\ \E b \in AllBlocks(alloc) :
          b.memorySlots.reserved # {} /\ Cardinality(b.memorySlots.available) >= 2

Disjoint(x, y) == x[1] + x[2] <= y[1] \/ y[1] + y[2] <= x[1]

\* C2: the ranges [ptr, ptr + size) of the allocations returned by allocate
\* and not yet deallocated are pairwise disjoint (no pointer is handed out
\* twice, no two ranges overlap).
C2_LiveRangesDisjoint ==
    \A x \in BagToSet(live) :
        /\ CopiesIn(x, live) = 1
        /\ \A y \in BagToSet(live) \ {x} : Disjoint(x, y)

\* C2's case: two allocations are live in one block.
C2_Witness ==
    \E b \in AllBlocks(alloc) :
        \E x, y \in BagToSet(live) :
            /\ x # y
            /\ <<x[1] - b.memory, x[2]>> \in b.memorySlots.reserved
            /\ <<y[1] - b.memory, y[2]>> \in b.memorySlots.reserved

\* ptr, for size bytes, is a pointer block b may have handed out.
PointerOf(b, ptr, size) ==
    /\ b.memory <= ptr
    /\ ptr < BlockEnd(b)
    /\ ptr % b.alignment = 0
    /\ <<ptr - b.memory, size>> \in b.memorySlots.reserved

\* C3: every non-null pointer MemoryBlock::allocate(size) returns lies in
\* [memory, memory + capacity) of the block, is a multiple of the block's
\* alignment and is a range the block's Slot Tracker holds as reserved: for
\* the next call on every block there is, and for every pointer handed out
\* and not yet given back.
C3_PointerInBlock ==
    /\ \A b \in AllBlocks(alloc), size \in Sizes :
          MemoryBlock_allocate(b, size).ptr # nullptr
              => PointerOf(MemoryBlock_allocate(b, size).block, MemoryBlock_allocate(b, size).ptr, size)
    /\ \A x \in BagToSet(live) : \E b \in AllBlocks(alloc) : PointerOf(b, x[1], x[2])

\* C3's case: a block of alignment 16 has handed out a pointer past its start.
C3_Witness ==
    \E b \in AllBlocks(alloc), x \in BagToSet(live) :
        /\ b.alignment = PhysicsAlignment
        /\ b.memory < x[1]
        /\ PointerOf(b, x[1], x[2])

\* The reserved size of the group of allocatorAffinity, 0 when there is none.
GroupReserved(A, allocatorAffinity) ==
    IF GroupAt(A, allocatorAffinity) = Null THEN 0
    ELSE MemoryBlocks_totalReservedSize(GroupAt(A, allocatorAffinity))

\* allocate's result r in A is followed by deallocate of the pointer.
RoundTrip(A, size, allocatorAffinity, r) ==
    /\ r.outcome = "returned"
    /\ Allocator_deallocate(r.A, r.ptr, size).ret
    /\ GroupReserved(Allocator_deallocate(r.A, r.ptr, size).A, allocatorAffinity)
           = GroupReserved(A, allocatorAffinity)

\* C4: in every reachable state, for every size and affinity, allocate
\* followed at once by deallocate of the returned pointer returns true and
\* leaves the reserved size of the affinity's group as it was (a call that
\* ends in std::bad_alloc returns no pointer and is left out).
C4_RoundTrip ==
    Callable =>
        \A size \in Sizes, allocatorAffinity \in Affinities :
            \A r \in AllocateResults(alloc, size, allocatorAffinity) :
                r.outcome # "bad_alloc" => RoundTrip(alloc, size, allocatorAffinity, r)

\* C5: for every affinity without a group (one equal to the vector's size
\* and an index left empty included) allocate makes a group with the default
\* block size and the allocator's default alignment and hands the request to
\* it.
C5_LazyGroupCreation ==
    Callable =>
        \A size \in Sizes, allocatorAffinity \in Affinities :
            GroupAt(alloc, allocatorAffinity) = Null =>
                \A r \in AllocateResults(alloc, size, allocatorAffinity) :
                    /\ r.outcome \in {"returned", "bad_alloc"}
                    /\ GroupAt(r.A, allocatorAffinity) # Null
                    /\ GroupAt(r.A, allocatorAffinity).blockSize = AllocateBlockSize
                    /\ GroupAt(r.A, allocatorAffinity).alignment = alloc.default_alignment

\* C7: when the group of the affinity is absent and allocate makes none (the
\* affinity is not above the vector's size), allocate returns a non-null
\* pointer from the nested allocator or the system allocator.
C7_FallbackServes ==
    (Callable /\ alloc.nestedAllocator # Null) =>
        \A size \in Sizes, allocatorAffinity \in Affinities :
            (/\ allocatorAffinity < Len(alloc.allocatorMemoryBlocks)
             /\ GroupAt(alloc, allocatorAffinity) = Null) =>
                \A r \in AllocateResults(alloc, size, allocatorAffinity) :
                    r.outcome = "returned" /\ r.ptr # nullptr

\* C6: no thread that holds the mutex calls Allocator::allocate, which would
\* lock it again (the thread then waits for itself, if the build lets it).
C6_NoRelock ==
    \A t \in Threads : threads[t].pc # "relock"

\* Thread t is in a call, reading or writing the vector of groups, a group's
\* blocks or a block's memorySlots.
Accessing(t) ==
    threads[t].pc \in {"allocate", "out_of_bounds", "relock", "deallocate", "setMemoryTracking"}

\* C8: every access to the vector of groups, a group's blocks or a block's
\* tracker is made by a thread that holds the mutex, so no two threads are
\* in such code at once.
C8_MutexSerialises ==
    /\ \A t \in Threads : Accessing(t) => mutex = t
    /\ \A t, u \in Threads : (t # u /\ Accessing(t)) => ~Accessing(u)

\* Every thread is between two calls and holds no allocation.
Finished == \A t \in Threads : threads[t].pc = "idle" /\ threads[t].ptr = nullptr

\* C9: threads running allocate / deallocate pairs all complete (none stops
\* in allocate, the process does not die in it), no range is handed out
\* twice, and when all have finished totalReservedSize() = 0.
C9_StressCompletes ==
    /\ crashed \notin {"relock", "out_of_bounds"}
    /\ \A t \in Threads : threads[t].pc \notin {"out_of_bounds", "relock", "blocked"}
    /\ \A x \in BagToSet(live) : CopiesIn(x, live) = 1
    /\ Finished => Allocator_totalReservedSize(alloc) = 0

\* C10: under concurrent first use of instance() the constructor runs once
\* and every thread gets that one Allocator.
C10_ConstructedOnce ==
    /\ constructed <= 1
    /\ \A t \in Threads :
          /\ threads[t].instance \in {0, 1}
          /\ threads[t].pc \notin {"start", "init", "dead"} => threads[t].instance = 1

\* C10's case: every thread has called instance() and holds its result.
C10_Witness ==
    /\ constructed = 1
    /\ \A t \in Threads : threads[t].instance = 1

\* The allocator A with another fallback mode and nested allocator.
Configured(A, allocatorType, nestedAllocator) ==
    [A EXCEPT !.allocatorType = allocatorType, !.nestedAllocator = nestedAllocator]

\* The nested allocators tried: none, one that claims nothing, one whose
\* own fallback mode makes it claim every pointer.
NestedAllocators ==
    {Null,
     Allocator_new(in_default_alignment, ALLOCATOR_TYPE_NO_FALLBACK, Null),
     Allocator_new(in_default_alignment, ALLOCATOR_TYPE_NEW_DELETE, Null)}

\* The (ptr, size) deallocate is tried with: a pointer in no block, the start
\* of every block, every pointer handed out; the sizes handed out and others.
DeallocatePtrs == {8} \cup MisusePtrs \cup {x[1] : x \in BagToSet(live)}
DeallocateSizes == Sizes \cup MisuseSizes

\* Group i of A claims ptr and no group before it does.
FirstClaiming(A, ptr, size, i) ==
    /\ A.allocatorMemoryBlocks[i] # Null
    /\ MemoryBlocks_deallocate(A.allocatorMemoryBlocks[i], ptr, size).ret
    /\ \A j \in 1..(i - 1) :
          A.allocatorMemoryBlocks[j] = Null
              \/ ~MemoryBlocks_deallocate(A.allocatorMemoryBlocks[j], ptr, size).ret

\* d is what deallocate(ptr, size) must give in A: the first claiming group's
\* answer, else the nested allocator's, else the fallback mode's.
DeallocateOrder(A, ptr, size, d) ==
    IF \E i \in 1..Len(A.allocatorMemoryBlocks) : FirstClaiming(A, ptr, size, i)
    THEN /\ d.ret /\ d.by = "group"
         /\ \A i \in 1..Len(A.allocatorMemoryBlocks) :
               FirstClaiming(A, ptr, size, i) =>
                   d.A = [A EXCEPT !.allocatorMemoryBlocks[i] =
                             MemoryBlocks_deallocate(A.allocatorMemoryBlocks[i], ptr, size).mbs]
    ELSE IF A.nestedAllocator # Null /\ Allocator_deallocate(A.nestedAllocator, ptr, size).ret
    THEN d.ret /\ d.by = "nested" /\ d.A.allocatorMemoryBlocks = A.allocatorMemoryBlocks
    ELSE IF A.allocatorType = ALLOCATOR_TYPE_NEW_DELETE
    THEN d.ret /\ d.by = "delete" /\ d.A = A
    ELSE IF A.allocatorType = ALLOCATOR_TYPE_MALLOC_FREE
    THEN d.ret /\ d.by = "free" /\ d.A = A
    ELSE ~d.ret /\ d.by = "none" /\ d.A = A

\* C11: deallocate(ptr, size) takes the answer of the first group, in index
\* order, that claims the pointer; if none does, of the nested allocator when
\* there is one; if that fails too it applies the fallback mode and returns
\* true; it returns false exactly when nobody claims the pointer and the
\* fallback mode is none.
C11_DeallocateOrder ==
    \A allocatorType \in AllocatorTypes, nestedAllocator \in NestedAllocators :
        \A ptr \in DeallocatePtrs, size \in DeallocateSizes :
            DeallocateOrder(Configured(alloc, allocatorType, nestedAllocator), ptr, size,
                            Allocator_deallocate(Configured(alloc, allocatorType, nestedAllocator), ptr, size))

\* C11's case: groups PHYSICS and 5 both own a block and an allocation is
\* live, so a group claims some pointers and none claims others.
C11_Witness ==
    /\ live # EmptyBag
    /\ Cardinality({i \in Groups(alloc) : DOMAIN alloc.allocatorMemoryBlocks[i].memoryBlocks # {}}) >= 2

\* The pointers MemoryBlock::deallocate of block b is tried with: its first
\* and last byte, one in between, every pointer handed out, and the bytes
\* just before and just after it.
BlockPtrs(b) ==
    {b.memory, b.memory + 4, BlockEnd(b) - 1, b.memory - 1, BlockEnd(b)}
        \cup {x[1] : x \in BagToSet(live)}

InsideBlock(b, ptr) == b.memory <= ptr /\ ptr < BlockEnd(b)

\* C12 as amended: for a pointer inside the block MemoryBlock::deallocate
\* returns true whether or not release released the range (the tracker is
\* what release left: unchanged when it failed); for a pointer outside it
\* returns false and the block is untouched.
C12_DeallocateReturnsTrueInside ==
    \A b \in AllBlocks(alloc), size \in DeallocateSizes :
        \A ptr \in BlockPtrs(b) :
            IF InsideBlock(b, ptr)
            THEN /\ MemoryBlock_deallocate(b, ptr, size).ret
                 /\ MemoryBlock_deallocate(b, ptr, size).block.memorySlots
                        = MemorySlots_release(b.memorySlots, ptr - b.memory, size).ms
                 /\ MemoryBlock_deallocate(b, ptr, size).released
                        = MemorySlots_release(b.memorySlots, ptr - b.memory, size).ok
            ELSE /\ ~MemoryBlock_deallocate(b, ptr, size).ret
                 /\ MemoryBlock_deallocate(b, ptr, size).block = b

\* C12 as stated: for a pointer inside the block MemoryBlock::deallocate
\* returns the boolean release returned.
C12_ReturnsWhatReleaseReturns ==
    \A b \in AllBlocks(alloc), size \in DeallocateSizes :
        \A ptr \in BlockPtrs(b) :
            InsideBlock(b, ptr) =>
                MemoryBlock_deallocate(b, ptr, size).ret
                    = MemorySlots_release(b.memorySlots, ptr - b.memory, size).ok

\* C12's case: a block holds a live allocation at its start, so among the
\* calls tried one releases a range and others name ranges not reserved.
C12_Witness ==
    \E b \in AllBlocks(alloc), x \in BagToSet(live) :
        /\ x[1] = b.memory
        /\ MemorySlots_release(b.memorySlots, 0, x[2]).ok
        /\ ~MemorySlots_release(b.memorySlots, 0, x[2] + 1).ok

\* (ptr, size) lies inside block b and is no range b holds as reserved.
Misuse(b, ptr, size) ==
    InsideBlock(b, ptr) /\ <<ptr - b.memory, size>> \notin b.memorySlots.reserved

\* C13: a deallocate whose (ptr, size) lies inside an owned block but is no
\* reserved range (a double free, a wrong size, a range never allocated)
\* is claimed by the block's group and leaves the whole allocator, so that
\* block's free ranges and reserved total and every live allocation, as it
\* was.
C13_MisuseChangesNothing ==
    \A b \in AllBlocks(alloc), ptr \in DeallocatePtrs, size \in DeallocateSizes :
        Misuse(b, ptr, size) =>
            /\ Allocator_deallocate(alloc, ptr, size).ret
            /\ Allocator_deallocate(alloc, ptr, size).by = "group"
            /\ Allocator_deallocate(alloc, ptr, size).A = alloc

\* C13's case: one block has had all its allocations freed (a second free of
\* them is a double free) while another holds a live allocation.
C13_Witness ==
    \E b, o \in AllBlocks(alloc) :
        /\ b.memorySlots.reserved = {} /\ Misuse(b, b.memory, 3)
        /\ o.memorySlots.reserved # {} /\ Misuse(o, o.memory, 4)

\* The blocks of A's groups, each named by its group and its memory.
OwnedBlocks(A) ==
    {<<i, m>> \in Groups(A) \X HeapBases : m \in DOMAIN A.allocatorMemoryBlocks[i].memoryBlocks}

Owned(A, k) == A.allocatorMemoryBlocks[k[1]].memoryBlocks[k[2]]

\* The sum of the capacities of the blocks K of A.
Capacities(A, K) == SumOver([k \in K |-> MemorySlots_totalMemorySize(Owned(A, k).memorySlots)], K)

\* The blocks of A with no reserved range.
Unreserved(A) == {k \in OwnedBlocks(A) : Owned(A, k).memorySlots.reserved = {}}

\* d is what deleteEmptyMemoryBlocks() must give in A.
DeletesEmpty(A, d) ==
    /\ OwnedBlocks(d.A) = OwnedBlocks(A) \ Unreserved(A)
    /\ \A k \in OwnedBlocks(d.A) : Owned(d.A, k) = Owned(A, k)
    /\ d.memoryDeleted = Capacities(A, Unreserved(A))
    /\ Allocator_totalMemorySize(d.A) = Allocator_totalMemorySize(A) - d.memoryDeleted

\* C14: deleteEmptyMemoryBlocks() removes exactly the blocks with no
\* reserved bytes (so every block whose allocations have all been given
\* back), leaves the others as they are, returns the sum of the removed
\* blocks' capacities and lowers totalMemorySize() by that amount.
C14_DeleteEmptyExact == DeletesEmpty(alloc, Allocator_deleteEmptyMemoryBlocks(alloc))

\* C14's case: the allocator owns a block whose allocations have all been
\* given back, which is the group's latest, and a block still in use.
C14_Witness ==
    /\ \E k \in Unreserved(alloc) : alloc.allocatorMemoryBlocks[k[1]].latestMemoryBlock = k[2]
    /\ OwnedBlocks(alloc) \ Unreserved(alloc) # {}

\* The groups MemoryBlocks::allocate is tried on: every group of alloc, as it
\* is and with blockSize set to 1.
TriedGroups ==
    UNION {{alloc.allocatorMemoryBlocks[i], [alloc.allocatorMemoryBlocks[i] EXCEPT !.blockSize = 1]} :
              i \in Groups(alloc)}

\* The sizes it is tried with.
TriedSizes == Sizes \cup {1, Megabyte}

\* The block MemoryBlocks::allocate(size) of mbs makes if it makes one at memory.
BlockToMake(mbs, size, memory) ==
    MemoryBlock_new(Max(size, mbs.blockSize), alloc.memoryTracking, mbs.alignment, memory)

\* What operator new can do when mbs makes a block for size: throw (nullptr)
\* or return an address where the block fits.
NewOutcomes(mbs, size) ==
    {nullptr} \cup {memory \in HeapBases : OperatorNewMayReturn(alloc, BlockToMake(mbs, size, memory))}

\* No block of mbs can serve size.
NoneServes(mbs, size) ==
    \A m \in DOMAIN mbs.memoryBlocks : MemoryBlock_allocate(mbs.memoryBlocks[m], size).ptr = nullptr

\* r is what allocate(size) of mbs gave with operator new yielding memory.
NeverNull(mbs, size, memory, r) ==
    IF r.thrown
    THEN memory = nullptr /\ NoneServes(mbs, size)
    ELSE r.ptr # nullptr /\ (NoneServes(mbs, size) => r.ptr = memory)

\* C15: MemoryBlocks::allocate(size) returns a non-null pointer, from a block
\* it owns or from the block it makes when none can serve; the only other
\* outcome is that operator new throws while the block is made.
C15_GroupAllocateNeverNull ==
    \A mbs \in TriedGroups, size \in TriedSizes :
        \A memory \in NewOutcomes(mbs, size) :
            NeverNull(mbs, size, memory, MemoryBlocks_allocate(mbs, size, alloc.memoryTracking, memory))

\* C15's case: a group owns a block, no block of it can hold a request, and
\* operator new has an address for a new one.
C15_Witness ==
    \E mbs \in TriedGroups, size \in TriedSizes :
        /\ DOMAIN mbs.memoryBlocks # {}
        /\ NoneServes(mbs, size)
        /\ NewOutcomes(mbs, size) # {nullptr}

\* The capacity of the block at m in mbs.
CapacityAt(mbs, m) == MemorySlots_totalMemorySize(mbs.memoryBlocks[m].memorySlots)

\* r is what allocate(size) of mbs gave with operator new yielding memory: a
\* block was asked of operator new only if no owned block could serve; a block
\* that was made is the one new block and holds max(size, blockSize) bytes;
\* otherwise the owned blocks are the same.
GrowsOnlyWhenNeeded(mbs, size, memory, r) ==
    /\ (r.created \/ r.thrown) => NoneServes(mbs, size)
    /\ IF r.created
       THEN /\ memory \notin DOMAIN mbs.memoryBlocks
            /\ DOMAIN r.mbs.memoryBlocks = DOMAIN mbs.memoryBlocks \cup {memory}
            /\ CapacityAt(r.mbs, memory) = Max(size, mbs.blockSize)
            /\ CapacityAt(r.mbs, memory) >= size
       ELSE DOMAIN r.mbs.memoryBlocks = DOMAIN mbs.memoryBlocks

\* C16: a group makes a new block only when no block it owns can serve the
\* request, and the new block's capacity is max(size, blockSize), so a request
\* above blockSize on a group without blocks makes exactly one block of at
\* least the requested size.
C16_BlockGrowthPolicy ==
    \A mbs \in TriedGroups, size \in TriedSizes :
        \A memory \in NewOutcomes(mbs, size) :
            GrowsOnlyWhenNeeded(mbs, size, memory,
                                MemoryBlocks_allocate(mbs, size, alloc.memoryTracking, memory))

\* C16's case: a request above blockSize was made on a group without blocks,
\* which now owns one block, larger than blockSize and holding the request.
C16_Witness ==
    \E i \in Groups(alloc) : \E m \in DOMAIN alloc.allocatorMemoryBlocks[i].memoryBlocks :
        /\ DOMAIN alloc.allocatorMemoryBlocks[i].memoryBlocks = {m}
        /\ CapacityAt(alloc.allocatorMemoryBlocks[i], m) > alloc.allocatorMemoryBlocks[i].blockSize
        /\ MemorySlots_totalReservedSize(alloc.allocatorMemoryBlocks[i].memoryBlocks[m].memorySlots) = Megabyte + 8

\* a is what allocate(size) on the affinity of group i gave in B: a pointer,
\* no new block, and the group's blocks and totalMemorySize() as in B.
ReusedBy(B, i, a) ==
    /\ a.outcome = "returned" /\ a.ptr # nullptr /\ ~a.created
    /\ DOMAIN a.A.allocatorMemoryBlocks[i].memoryBlocks = DOMAIN B.allocatorMemoryBlocks[i].memoryBlocks
    /\ MemoryBlocks_totalMemorySize(a.A.allocatorMemoryBlocks[i])
           = MemoryBlocks_totalMemorySize(B.allocatorMemoryBlocks[i])

\* The groups of A in which d, the result of a deallocate, freed a range.
FreedIn(A, d) ==
    IF d.by = "group" /\ d.released
    THEN {i \in Groups(A) : d.A.allocatorMemoryBlocks[i] # A.allocatorMemoryBlocks[i]}
    ELSE {}

\* After d, the result of deallocate(ptr, size), allocate(size) on the
\* affinity of the group that freed the range reuses the group's blocks,
\* whatever operator new would do.
ReusesFreed(A, size, d) ==
    \A i \in FreedIn(A, d) : \A memory \in HeapBases \cup {nullptr} :
        ReusedBy(d.A, i, Allocator_allocate(d.A, size, i - 1, memory))

BlockSizes == {1, 2 * Megabyte}

\* The byte counts an allocator reports.
Totals(A) ==
    <<Allocator_totalAvailableSize(A), Allocator_totalReservedSize(A), Allocator_totalMemorySize(A)>>

\* t is what a call gave in the allocator after setMemoryTracking(mt), a what
\* it gave in the allocator itself: the same results, and the allocator that a
\* leaves with mt as the tracking flags.
SameAllocate(t, a, mt) ==
    /\ t.outcome = a.outcome /\ t.ptr = a.ptr /\ t.created = a.created
    /\ t.A = Allocator_setMemoryTracking(a.A, mt)

SameDeallocate(t, a, mt) ==
    /\ t.ret = a.ret /\ t.by = a.by /\ t.released = a.released
    /\ t.A = Allocator_setMemoryTracking(a.A, mt)

SameDeleted(t, a, mt) ==
    t.memoryDeleted = a.memoryDeleted /\ t.A = Allocator_setMemoryTracking(a.A, mt)

SameBlockSize(t, a, mt) ==
    t.outcome = a.outcome /\ t.A = Allocator_setMemoryTracking(a.A, mt)

\* T is the allocator A after setMemoryTracking(mt).  Every call gives in T the
\* results it gives in A and leaves T's twin: the blocks and reservations of
\* the allocator it leaves in A, with mt as the tracking flags.  As the twin of
\* a state is reached from the twin of its predecessor, this carries over to
\* every sequence of calls.
SameOutcomes(A, T, mt) ==
    /\ Totals(T) = Totals(A)
    /\ \A size \in Sizes, allocatorAffinity \in Affinities, memory \in HeapBases \cup {nullptr} :
          SameAllocate(Allocator_allocate(T, size, allocatorAffinity, memory),
                       Allocator_allocate(A, size, allocatorAffinity, memory), mt)
    /\ \A ptr \in DeallocatePtrs, size \in DeallocateSizes :
          SameDeallocate(Allocator_deallocate(T, ptr, size), Allocator_deallocate(A, ptr, size), mt)
    /\ SameDeleted(Allocator_deleteEmptyMemoryBlocks(T), Allocator_deleteEmptyMemoryBlocks(A), mt)
    /\ \A allocatorAffinity \in Affinities, blockSize \in BlockSizes :
          SameBlockSize(Allocator_setBlockSize(T, allocatorAffinity, blockSize),
                        Allocator_setBlockSize(A, allocatorAffinity, blockSize), mt)

\* C18: memory tracking is observational: an allocator and the same allocator
\* after setMemoryTracking(flags) return the same results for every allocate,
\* deallocate, deleteEmptyMemoryBlocks and setBlockSize and report the same
\* byte counts, and are left with the same blocks and reservations.
C18_TrackingObservational ==
    \A mt \in TrackingModes : SameOutcomes(alloc, Allocator_setMemoryTracking(alloc, mt), mt)

\* C18's case: the allocator owns a block with a reservation, the flags passed
\* differ from its own, and an allocate makes a block in the tracked allocator.
C18_Witness ==
    /\ Allocator_totalReservedSize(alloc) > 0
    /\ \E mt \in TrackingModes :
          /\ Allocator_setMemoryTracking(alloc, mt) # alloc
          /\ \E size \in Sizes, allocatorAffinity \in Affinities, memory \in HeapBases :
                Allocator_allocate(Allocator_setMemoryTracking(alloc, mt), size, allocatorAffinity, memory).created

\* latestMemoryBlock of mbs is null or names a block mbs owns.
LatestOwned(mbs) ==
    mbs.latestMemoryBlock = nullptr \/ mbs.latestMemoryBlock \in DOMAIN mbs.memoryBlocks

\* a is what an allocate gave: a pointer, unless operator new threw.
Succeeds(a, memory) ==
    \/ a.outcome = "returned" /\ a.ptr # nullptr
    \/ a.outcome = "bad_alloc" /\ memory = nullptr

\* D is the allocator that deleteEmptyMemoryBlocks leaves of A.  In group i
\* latestMemoryBlock still names an owned block or is null, it is null if its
\* block was removed, and after such a removal allocate on the group's
\* affinity succeeds whatever operator new does.
LatestCleared(A, D, i) ==
    /\ LatestOwned(D.allocatorMemoryBlocks[i])
    /\ A.allocatorMemoryBlocks[i].latestMemoryBlock \notin DOMAIN D.allocatorMemoryBlocks[i].memoryBlocks
          => /\ D.allocatorMemoryBlocks[i].latestMemoryBlock = nullptr
             /\ \A size \in Sizes : \A memory \in HeapBases \cup {nullptr} :
                   (memory # nullptr =>
                        OperatorNewMayReturn(D, BlockToMake(D.allocatorMemoryBlocks[i], size, memory)))
                   => Succeeds(Allocator_allocate(D, size, i - 1, memory), memory)

\* C19: in every reachable state every group's latestMemoryBlock is null or
\* names a block the group still owns; deleteEmptyMemoryBlocks clears it when
\* it removes the block it names, and an allocate right after succeeds.
C19_LatestNeverDangles ==
    \A i \in Groups(alloc) :
        /\ LatestOwned(alloc.allocatorMemoryBlocks[i])
        /\ LatestCleared(alloc, Allocator_deleteEmptyMemoryBlocks(alloc).A, i)

\* C19's case: deleteEmptyMemoryBlocks has removed the block latestMemoryBlock
\* named and left another: the group owns a block and has no latest block.
C19_Witness ==
    \E i \in Groups(alloc) :
        /\ alloc.allocatorMemoryBlocks[i].latestMemoryBlock = nullptr
        /\ DOMAIN alloc.allocatorMemoryBlocks[i].memoryBlocks # {}

\* The pointers MemoryBlocks::deallocate is tried with: a pointer below every
\* block, and for every block that exists its first and last byte, one in
\* between, the bytes just before and after it, and every pointer handed out.
LocatePtrs == {8} \cup UNION {BlockPtrs(b) : b \in AllBlocks(alloc)}

\* The blocks of mbs whose [memory, memory + capacity) holds ptr.
Containing(mbs, ptr) ==
    {m \in DOMAIN mbs.memoryBlocks : InsideBlock(mbs.memoryBlocks[m], ptr)}

\* d is what deallocate(ptr, size) of mbs gave: false and no change for a
\* pointer inside no owned block; otherwise true, with the request handed to
\* the block that holds ptr, the one with the greatest memory not above ptr,
\* and to no other.
HandedToContaining(mbs, ptr, size, d) ==
    IF Containing(mbs, ptr) = {}
    THEN ~d.ret /\ d.mbs = mbs
    ELSE \A m \in Containing(mbs, ptr) :
            /\ m = SetMax({k \in DOMAIN mbs.memoryBlocks : k <= ptr})
            /\ d.ret
            /\ d.released = MemoryBlock_deallocate(mbs.memoryBlocks[m], ptr, size).released
            /\ d.mbs = [mbs EXCEPT !.memoryBlocks[m] =
                           MemoryBlock_deallocate(mbs.memoryBlocks[m], ptr, size).block]

\* C20: for a pointer inside a block a group owns, MemoryBlocks::deallocate
\* hands the request to exactly that block, the owned block with the greatest
\* base address not above the pointer; for a pointer inside no owned block it
\* returns false.
C20_LocatesContainingBlock ==
    \A i \in Groups(alloc) : \A ptr \in LocatePtrs, size \in DeallocateSizes :
        HandedToContaining(alloc.allocatorMemoryBlocks[i], ptr, size,
                           MemoryBlocks_deallocate(alloc.allocatorMemoryBlocks[i], ptr, size))

\* C20's case: a group owns two blocks of different capacities, the one made
\* last at the lower address, and an allocation is live in the lower one.
C20_Witness ==
    \E i \in Groups(alloc) : \E m, n \in DOMAIN alloc.allocatorMemoryBlocks[i].memoryBlocks :
        /\ m < n
        /\ alloc.allocatorMemoryBlocks[i].latestMemoryBlock = m
        /\ CapacityAt(alloc.allocatorMemoryBlocks[i], m) # CapacityAt(alloc.allocatorMemoryBlocks[i], n)
        /\ \E x \in BagToSet(live) : InsideBlock(alloc.allocatorMemoryBlocks[i].memoryBlocks[m], x[1])

\* Two more addresses operator new may return, below and above HeapBases.
FurtherBases == {16, (NumSlots + 1) * SlotStride + 16 * (NumSlots + 1)}

\* The groups that own exactly one block: it is older than any block made later.
SingleBlockGroups ==
    {alloc.allocatorMemoryBlocks[i] : i \in {j \in Groups(alloc) :
        Cardinality(DOMAIN alloc.allocatorMemoryBlocks[j].memoryBlocks) = 1}}

\* The block mbs makes for size at memory overlaps no block of mbs.
FreeFor(mbs, size, memory) ==
    \A m \in DOMAIN mbs.memoryBlocks :
        \/ BlockEnd(BlockToMake(mbs, size, memory)) <= m
        \/ BlockEnd(mbs.memoryBlocks[m]) <= memory

\* mbs after allocate(size), operator new yielding memory.
AfterAllocate(mbs, size, memory) ==
    MemoryBlocks_allocate(mbs, size, alloc.memoryTracking, memory).mbs

\* mbs after two allocate(Megabyte + 8) that make a block at second and then a
\* block at third, and deallocate of the allocation in the block at second:
\* the block at third is latestMemoryBlock and full, the one at second empty.
TwoOlderBlocks(mbs, second, third) ==
    MemoryBlocks_deallocate(
        AfterAllocate(AfterAllocate(mbs, Megabyte + 8, second), Megabyte + 8, third),
        second, Megabyte + 8).mbs

\* In mbs, which owns the blocks at first, second and third, made in this
\* order, allocate(size) that the latest block (at third) cannot serve and
\* both others can returns a pointer into the block at second, made later
\* than the one at first.
NewerServes(mbs, first, second, third, size) ==
    (/\ DOMAIN mbs.memoryBlocks = {first, second, third}
     /\ mbs.latestMemoryBlock = third
     /\ MemoryBlock_allocate(mbs.memoryBlocks[third], size).ptr = nullptr
     /\ MemoryBlock_allocate(mbs.memoryBlocks[first], size).ptr # nullptr
     /\ MemoryBlock_allocate(mbs.memoryBlocks[second], size).ptr # nullptr)
    => InsideBlock(mbs.memoryBlocks[second],
                   MemoryBlocks_allocate(mbs, size, alloc.memoryTracking, nullptr).ptr)

\* C21: when latestMemoryBlock cannot serve a request, MemoryBlocks::allocate
\* scans the other blocks from the most recently made to the least recently
\* made: of two older blocks that can both serve, the one made later is used.
C21_ScansByRecency ==
    \A mbs \in SingleBlockGroups : \A first \in DOMAIN mbs.memoryBlocks :
        \A second, third \in HeapBases \cup FurtherBases :
            (/\ Cardinality({first, second, third}) = 3
             /\ FreeFor(mbs, Megabyte + 8, second)
             /\ FreeFor(mbs, Megabyte + 8, third))
            => \A size \in TriedSizes :
                  NewerServes(TwoOlderBlocks(mbs, second, third), first, second, third, size)

\* latestMemoryBlock of mbs exists and can serve size.
LatestServes(mbs, size) ==
    /\ mbs.latestMemoryBlock # nullptr
    /\ MemoryBlock_allocate(mbs.memoryBlocks[mbs.latestMemoryBlock], size).ptr # nullptr

\* r is what allocate(size) of mbs gave: a pointer into the cached block when
\* that block can serve; the cached block is the new block if one was made and
\* the same as before otherwise.
CachedFirst(mbs, size, memory, r) ==
    /\ LatestServes(mbs, size) =>
          /\ ~r.created /\ ~r.thrown
          /\ InsideBlock(mbs.memoryBlocks[mbs.latestMemoryBlock], r.ptr)
          /\ DOMAIN r.mbs.memoryBlocks = DOMAIN mbs.memoryBlocks
    /\ r.mbs.latestMemoryBlock = IF r.created THEN memory ELSE mbs.latestMemoryBlock

\* d is what deleteEmptyMemoryBlocks of mbs gave: the cached block is null if
\* its block was removed and the same as before otherwise.
CachedUnlessRemoved(mbs, d) ==
    d.mbs.latestMemoryBlock =
        IF mbs.latestMemoryBlock \in DOMAIN d.mbs.memoryBlocks THEN mbs.latestMemoryBlock ELSE nullptr

\* C22: when the cached block of a group exists and can serve a request,
\* MemoryBlocks::allocate returns a pointer inside it even if other blocks
\* could serve; latestMemoryBlock changes only when a block is made (it names
\* that block) or when deleteEmptyMemoryBlocks removes the block it names,
\* not when another block serves and not in deallocate.
C22_CachedBlockFirst ==
    \A i \in Groups(alloc) :
        /\ \A size \in TriedSizes : \A memory \in NewOutcomes(alloc.allocatorMemoryBlocks[i], size) :
              CachedFirst(alloc.allocatorMemoryBlocks[i], size, memory,
                          MemoryBlocks_allocate(alloc.allocatorMemoryBlocks[i], size,
                                                alloc.memoryTracking, memory))
        /\ \A ptr \in LocatePtrs, size \in DeallocateSizes :
              MemoryBlocks_deallocate(alloc.allocatorMemoryBlocks[i], ptr, size).mbs.latestMemoryBlock
                  = alloc.allocatorMemoryBlocks[i].latestMemoryBlock
        /\ CachedUnlessRemoved(alloc.allocatorMemoryBlocks[i],
                               MemoryBlocks_deleteEmptyMemoryBlocks(alloc.allocatorMemoryBlocks[i]))

\* C22's case: the cached block of a group can serve a request and so can
\* another block, at a higher address, that the scan would reach first.
C22_Witness ==
    \E i \in Groups(alloc) : \E m \in DOMAIN alloc.allocatorMemoryBlocks[i].memoryBlocks :
        /\ LatestServes(alloc.allocatorMemoryBlocks[i], 3)
        /\ m > alloc.allocatorMemoryBlocks[i].latestMemoryBlock
        /\ MemoryBlock_allocate(alloc.allocatorMemoryBlocks[i].memoryBlocks[m], 3).ptr # nullptr

\* Every group of A is a group of B and owns in B the blocks it owns in A,
\* with their capacities.
KeepsBlocks(A, B) ==
    \A i \in Groups(A) :
        /\ i \in Groups(B)
        /\ \A m \in DOMAIN A.allocatorMemoryBlocks[i].memoryBlocks :
              /\ m \in DOMAIN B.allocatorMemoryBlocks[i].memoryBlocks
              /\ CapacityAt(B.allocatorMemoryBlocks[i], m) = CapacityAt(A.allocatorMemoryBlocks[i], m)

\* B, left by a call in A, has lost no block, and totalMemorySize() has not
\* shrunk.
NotCompacted(A, B) ==
    KeepsBlocks(A, B) /\ Allocator_totalMemorySize(B) >= Allocator_totalMemorySize(A)

\* C23: no allocate and no deallocate removes a block: after either, every
\* group owns the blocks it owned, and totalMemorySize() is not smaller; after
\* a deallocate, also one that empties a block, it is the same.
C23_NoAutomaticCompaction ==
    /\ \A size \in Sizes, allocatorAffinity \in Affinities :
          \A r \in AllocateResults(alloc, size, allocatorAffinity) : NotCompacted(alloc, r.A)
    /\ \A ptr \in DeallocatePtrs, size \in DeallocateSizes :
          /\ NotCompacted(alloc, Allocator_deallocate(alloc, ptr, size).A)
          /\ Allocator_totalMemorySize(Allocator_deallocate(alloc, ptr, size).A)
                = Allocator_totalMemorySize(alloc)

\* C23's case: a deallocate has emptied a block, which the group still owns
\* beside a block that holds an allocation.
C23_Witness ==
    /\ \E b \in AllBlocks(alloc) : MemorySlots_empty(b.memorySlots)
    /\ \E b \in AllBlocks(alloc) : ~MemorySlots_empty(b.memorySlots)

\* D is the allocator that deleteEmptyMemoryBlocks leaves of A: every block
\* with a reserved range is where it was, as it was.
KeepsReserved(A, D) ==
    \A i \in Groups(A) : \A m \in DOMAIN A.allocatorMemoryBlocks[i].memoryBlocks :
        A.allocatorMemoryBlocks[i].memoryBlocks[m].memorySlots.reserved # {}
            => /\ m \in DOMAIN D.allocatorMemoryBlocks[i].memoryBlocks
               /\ D.allocatorMemoryBlocks[i].memoryBlocks[m] = A.allocatorMemoryBlocks[i].memoryBlocks[m]

\* d is what deallocate of a live allocation gave: a group released the range.
ReleasedByGroup(d) == d.ret /\ d.by = "group" /\ d.released

\* C24: deleteEmptyMemoryBlocks leaves every block that holds a reserved
\* range in place, with its address, capacity and reservations; every live
\* allocation can be deallocated afterwards, and totalReservedSize() is the
\* same.
C24_CompactionKeepsLive ==
    /\ KeepsReserved(alloc, Allocator_deleteEmptyMemoryBlocks(alloc).A)
    /\ Allocator_totalReservedSize(Allocator_deleteEmptyMemoryBlocks(alloc).A)
          = Allocator_totalReservedSize(alloc)
    /\ \A x \in BagToSet(live) :
          ReleasedByGroup(Allocator_deallocate(Allocator_deleteEmptyMemoryBlocks(alloc).A, x[1], x[2]))

\* C24's case: deleteEmptyMemoryBlocks has a block to remove while another
\* block holds a live allocation.
C24_Witness ==
    /\ Allocator_deleteEmptyMemoryBlocks(alloc).memoryDeleted > 0
    /\ \E x \in BagToSet(live) : \E b \in AllBlocks(alloc) : InsideBlock(b, x[1])

\* No thread is inside an operation of the Allocator.
Quiescent ==
    /\ crashed = "no" /\ alloc # Null /\ mutex = 0
    /\ \A t \in Threads : threads[t].pc \in {"start", "idle"}

\* C25: whenever no operation is in progress, every block's Slot Tracker
\* carries the flags last passed to setMemoryTracking (those line 516 stored
\* last in memoryTracking, which blocks made later are given).
C25_TrackingPropagated ==
    Quiescent => \A b \in AllBlocks(alloc) : b.memorySlots.memoryTracking = alloc.memoryTracking

\* Every group of A other than group i is in B what it is in A.
OtherGroupsSame(A, B, i) ==
    \A j \in Groups(A) \ {i} :
        j <= Len(B.allocatorMemoryBlocks) /\ B.allocatorMemoryBlocks[j] = A.allocatorMemoryBlocks[j]

\* r is what allocate(size, allocatorAffinity) gave in A: a pointer inside a
\* block of the affinity's group (or std::bad_alloc), every other group
\* untouched.
IsolatedAllocate(A, allocatorAffinity, r) ==
    /\ r.outcome \in {"returned", "bad_alloc"}
    /\ r.outcome = "returned" =>
          \E m \in DOMAIN r.A.allocatorMemoryBlocks[allocatorAffinity + 1].memoryBlocks :
              InsideBlock(BlockAt(r.A, allocatorAffinity, m), r.ptr)
    /\ OtherGroupsSame(A, r.A, allocatorAffinity + 1)

\* d is what deallocate(ptr, size) gave in A: at most one group changed, one
\* with a block that contains ptr.
IsolatedDeallocate(A, ptr, d) ==
    \A i \in Groups(A) :
        d.A.allocatorMemoryBlocks[i] # A.allocatorMemoryBlocks[i] =>
            /\ Containing(A.allocatorMemoryBlocks[i], ptr) # {}
            /\ OtherGroupsSame(A, d.A, i)

\* C26: allocate(size, a) returns a pointer inside a block of the group of
\* affinity a and leaves every other group as it was; deallocate changes at
\* most the one group whose block contains the pointer.
C26_GroupsIsolated ==
    /\ \A size \in Sizes, allocatorAffinity \in Affinities :
          \A r \in AllocateResults(alloc, size, allocatorAffinity) :
              IsolatedAllocate(alloc, allocatorAffinity, r)
    /\ \A ptr \in DeallocatePtrs, size \in DeallocateSizes :
          IsolatedDeallocate(alloc, ptr, Allocator_deallocate(alloc, ptr, size))

\* The alignments getOrCreateMemoryBlocks is tried with.
Alignments == {in_default_alignment, PhysicsAlignment}

\* c is what setBlockSize or getOrCreateMemoryBlocks gave in A for the
\* affinity: the call completed, the affinity has a group with the block size
\* given, the group owns the blocks it owned (none if it is new), and the
\* next block it makes holds max(size, blockSize) bytes.
Configures(A, allocatorAffinity, blockSize, c) ==
    /\ c.outcome = "done"
    /\ GroupAt(c.A, allocatorAffinity) # Null
    /\ GroupAt(c.A, allocatorAffinity).blockSize = blockSize
    /\ GroupAt(c.A, allocatorAffinity).memoryBlocks =
          IF GroupAt(A, allocatorAffinity) # Null
          THEN GroupAt(A, allocatorAffinity).memoryBlocks ELSE NoBlocks
    /\ \A size \in Sizes, memory \in FurtherBases :
          MemoryBlocks_allocate(GroupAt(c.A, allocatorAffinity), size, c.A.memoryTracking, memory).created
              => CapacityAt(MemoryBlocks_allocate(GroupAt(c.A, allocatorAffinity), size,
                                                  c.A.memoryTracking, memory).mbs, memory)
                    = Max(size, blockSize)

\* C27: for every affinity, in every reachable state, setBlockSize and
\* getOrCreateMemoryBlocks complete and leave a group at the affinity with the
\* block size given, making it if there is none; the blocks that exist keep
\* their capacity and blocks made afterwards hold max(request, block size).
C27_ConfigurationCompletes ==
    \A allocatorAffinity \in Affinities, blockSize \in BlockSizes :
        /\ Configures(alloc, allocatorAffinity, blockSize,
                      Allocator_setBlockSize(alloc, allocatorAffinity, blockSize))
        /\ \A alignment \in Alignments :
              Configures(alloc, allocatorAffinity, blockSize,
                         Allocator_getOrCreateMemoryBlocks(alloc, allocatorAffinity, <<"MemoryBlocks_named">>,
                                                           blockSize, alignment))

\* d is what deallocate gave in A: if it returned false, nothing was released
\* and the allocator, its groups and its nested allocator are as they were.
FalseChangesNothing(A, d) ==
    ~d.ret => d.by = "none" /\ ~d.released /\ d.A = A

\* d is what MemoryBlocks::deallocate gave in mbs: if it returned false, the
\* group is as it was and nothing was released.
GroupUnclaimed(mbs, d) ==
    ~d.ret => ~d.released /\ d.mbs = mbs

\* C28: a deallocate that returns false (no group and no nested allocator
\* claims the pointer, the fallback mode is none) leaves the blocks,
\* reservations and cached block of every group unchanged and frees nothing.
C28_FalseDeallocateNoEffect ==
    \A ptr \in DeallocatePtrs \cup LocatePtrs, size \in DeallocateSizes :
        /\ \A i \in Groups(alloc) :
              GroupUnclaimed(alloc.allocatorMemoryBlocks[i],
                             MemoryBlocks_deallocate(alloc.allocatorMemoryBlocks[i], ptr, size))
        /\ \A allocatorType \in AllocatorTypes, nestedAllocator \in NestedAllocators :
              FalseChangesNothing(Configured(alloc, allocatorType, nestedAllocator),
                                  Allocator_deallocate(Configured(alloc, allocatorType, nestedAllocator),
                                                       ptr, size))

\* C28's case: with fallback mode none and no nested allocator, a deallocate
\* returns false while a group has a cached block holding a live allocation.
C28_Witness ==
    /\ \E i \in Groups(alloc) : \E x \in BagToSet(live) :
          /\ alloc.allocatorMemoryBlocks[i].latestMemoryBlock # nullptr
          /\ InsideBlock(alloc.allocatorMemoryBlocks[i].memoryBlocks[alloc.allocatorMemoryBlocks[i].latestMemoryBlock], x[1])
    /\ \E ptr \in DeallocatePtrs \cup LocatePtrs :
          ~Allocator_deallocate(Configured(alloc, ALLOCATOR_TYPE_NO_FALLBACK, Null), ptr, 3).ret

\* The sum of the used figures of the groups, and of the blocks, in report r.
ReportedGroupsUsed(r) == SumOver(r[5], DOMAIN r[5])
ReportedBlocksUsed(r) ==
    SumOver([i \in DOMAIN r[6] |-> SumOver([m \in DOMAIN r[6][i] |-> r[6][i][m][1]], DOMAIN r[6][i])],
            DOMAIN r[6])

\* Report r is a snapshot of one state: its header's totalAvailableSize and
\* totalReservedSize add up to its totalMemorySize, and its totalReservedSize
\* is the sum of the groups' and of the blocks' used figures.
ConsistentReport(r) ==
    /\ r[1] + r[2] = r[3]
    /\ r[2] = ReportedGroupsUsed(r)
    /\ r[2] = ReportedBlocksUsed(r)

\* C29: what one report() call writes is a consistent snapshot of a single
\* allocator state, also when other threads allocate or deallocate during the
\* call.
C29_ReportIsSnapshot ==
    \A t \in Threads : threads[t].pc = "reported" => ConsistentReport(threads[t].report)

\* Every pointer that allocate(size, allocatorAffinity) returns in A is a
\* multiple of the alignment the affinity's group has.
AlignedForGroup(A, size, allocatorAffinity) ==
    \A r \in AllocateResults(A, size, allocatorAffinity) :
        r.outcome = "returned" => r.ptr % GroupAt(r.A, allocatorAffinity).alignment = 0

\* C30: every pointer allocate returns for an affinity is a multiple of the
\* alignment its group has at the time, also when the pointer comes from a
\* block made before getOrCreateMemoryBlocks changed the group's alignment.
C30_AlignedAfterReconfiguration ==
    \A allocatorAffinity \in Affinities, size \in Sizes :
        GroupAt(alloc, allocatorAffinity) # Null =>
            /\ AlignedForGroup(alloc, size, allocatorAffinity)
            /\ \A alignment \in Alignments :
                  AlignedForGroup(Allocator_getOrCreateMemoryBlocks(
                                      alloc, allocatorAffinity, GroupAt(alloc, allocatorAffinity).name,
                                      GroupAt(alloc, allocatorAffinity).blockSize, alignment).A,
                                  size, allocatorAffinity)

====
